---- MODULE Spec2Model ----
(***************************************************************************)
(* Model of the dining-hall dashboard's Menu Schedule Engine:              *)
(*   - the JSON entity store (src/src/storage.rs),                         *)
(*   - the background scheduler (src/src/scheduler.rs),                    *)
(*   - the schedule / item / preset request handlers                      *)
(*     (src/src/handlers.rs) that call into the store.                     *)
(*                                                                         *)
(* Time is an integer number of days since 1970-01-01 (a non-leap year);   *)
(* every comparison the code makes on DateTime<Utc> is an order            *)
(* comparison, so the unit only matters for the recurrence arithmetic.     *)
(*                                                                         *)
(* The specifications share the definitions:                               *)
(*   Spec       the engine and the handlers, every store call one step;    *)
(*   StoreSpec  concurrent callers of one collection's store operations,   *)
(*              with the collection's mutex and the two critical sections  *)
(*              of a mutation (memory update, file rewrite) as steps;      *)
(*   the others are introduced where they are defined.                     *)
(***************************************************************************)
EXTENDS Integers, Sequences, FiniteSets, TLC

VARIABLES
    now,                  \* the wall clock, Utc::now()
    menu_items,           \* JsonStorage.menu_items (in memory)
    menu_presets,         \* JsonStorage.menu_presets
    menu_schedules,       \* JsonStorage.menu_schedules
    menu_items_file,      \* content of data/menu_items.json
    menu_presets_file,    \* content of data/menu_presets.json
    menu_schedules_file,  \* content of data/menu_schedules.json
    next_id,              \* the next fresh schedule id (Uuid::new_v4)
    ext_ops,              \* number of handler requests served so far
    pc,                   \* the scheduler task's position
    schedules,            \* check_and_execute_schedules: the list read at line 63
    tick_now,             \* check_and_execute_schedules: `now` (line 66)
    idx,                  \* position of the for loop of line 69
    schedule,             \* execute_schedule: its `schedule` argument (a clone)
    preset,               \* execute_schedule: the preset found at line 158
    items_read,           \* execute_schedule: `menu_items` read at line 169
    item_idx,             \* position of the for loop of line 174
    exec_err,             \* the error execute_schedule returned
    items_touched,        \* history: a handler changed the item collection during the pass
    lock,                 \* StoreSpec: the owner of the item collection's Mutex
    tpc,                  \* StoreSpec: each caller's position
    targ,                 \* StoreSpec: each caller's operation and arguments
    tres,                 \* StoreSpec: each caller's last result
    terr,                 \* StoreSpec: the error value each caller's last call returned
    mem,                  \* CollSpec: the Vec inside each collection's Mutex
    disk,                 \* CollSpec: the file of each collection
    mutex,                \* CollSpec: each collection's Mutex: its owner and its poison flag
    boot,                 \* CollSpec: the position of JsonStorage::new
    parsed,               \* ReloadSpec: load_*: the Vec each caller parsed from the file
    elapsed,              \* TimerSpec: whole intervals elapsed since run_scheduler began
    deadline              \* TimerSpec: the Interval's next deadline, in intervals

storeVars == <<menu_items, menu_presets, menu_schedules,
               menu_items_file, menu_presets_file, menu_schedules_file>>
taskVars == <<pc, schedules, tick_now, idx, schedule, preset, items_read,
              item_idx, exec_err>>
threadVars == <<lock, tpc, targ, tres, terr>>
collVars == <<mem, disk, mutex, boot, parsed>>
timerVars == <<elapsed, deadline>>
vars == <<now, storeVars, next_id, ext_ops, taskVars, items_touched,
          threadVars, collVars, timerVars>>

(***************************************************************************)
(* Bounds of the model.                                                    *)
(***************************************************************************)
MaxTime == 3          \* the clock and the request times range over 0..MaxTime
MaxSchedules == 2     \* schedules ever created
MaxExternalOps == 2   \* handler requests served
NumItems == 3         \* menu items on disk at startup
NumThreads == 2       \* StoreSpec: concurrent callers
MaxCalls == 2         \* StoreSpec: store calls started
FarEnd == 40          \* LoadedSpec: an end_time beyond every recurrence step
MaxVecLen == 2        \* BootSpec: entities in a file at startup
MaxIntervals == 3     \* TimerSpec: intervals elapsed

Times == 0..MaxTime
ItemIds == 1..NumItems
Threads == 1..NumThreads

(***************************************************************************)
(* Data model (storage.rs).                                                *)
(***************************************************************************)
RecDaily == "Daily"
RecWeekly == "Weekly"
RecMonthly == "Monthly"
RecCustom == "Custom"
ScheduleRecurrence == {RecDaily, RecWeekly, RecMonthly, RecCustom}

\* The variants storage.rs declares and the variants scheduler.rs writes.
DeclaredStatus == {"Active", "Inactive", "Pending"}
EngineStatus == {"Pending", "Active", "Ended", "Conflicted", "Failed"}
ScheduleStatus == DeclaredStatus \cup EngineStatus

NoMessage == <<"None">>

MenuItem(id, avail) == [id |-> id, is_available |-> avail]
MenuPreset(id, ids) == [id |-> id, menu_item_ids |-> ids]
Notice(id, active) == [id |-> id, is_active |-> active]
AdminUser(id, name) == [id |-> id, username |-> name]
MenuSchedule(id, pid, st, en, rec, status) ==
    [id |-> id, preset_id |-> pid, start_time |-> st, end_time |-> en,
     recurrence |-> rec, status |-> status, error_message |-> NoMessage]

\* The two presets the model starts with: preset 1 selects items 1 and 2,
\* preset 2 selects the other items.
PresetIds == {1, 2}
InitialPresets == <<MenuPreset(1, {1, 2}), MenuPreset(2, ItemIds \ {1, 2})>>

(***************************************************************************)
(* serde_json: a collection is written as an array of objects, one per      *)
(* entity, each object a sequence of <<key, text>> members.                *)
(***************************************************************************)
BoolText(b) == IF b THEN "true" ELSE "false"
TextBool(s) == s = "true"

ItemToJson(it) == << <<"id", it.id>>, <<"is_available", BoolText(it.is_available)>> >>
ItemFromJson(o) == [id |-> o[1][2], is_available |-> TextBool(o[2][2])]

PresetToJson(p) == << <<"id", p.id>>, <<"menu_item_ids", p.menu_item_ids>> >>
PresetFromJson(o) == [id |-> o[1][2], menu_item_ids |-> o[2][2]]

ScheduleToJson(s) ==
    << <<"id", s.id>>, <<"preset_id", s.preset_id>>,
       <<"start_time", s.start_time>>, <<"end_time", s.end_time>>,
       <<"recurrence", s.recurrence>>, <<"status", s.status>>,
       <<"error_message", s.error_message>> >>
ScheduleFromJson(o) ==
    [id |-> o[1][2], preset_id |-> o[2][2], start_time |-> o[3][2],
     end_time |-> o[4][2], recurrence |-> o[5][2], status |-> o[6][2],
     error_message |-> o[7][2]]

NoticeToJson(n) == << <<"id", n.id>>, <<"is_active", BoolText(n.is_active)>> >>
NoticeFromJson(o) == [id |-> o[1][2], is_active |-> TextBool(o[2][2])]

AdminUserToJson(u) == << <<"id", u.id>>, <<"username", u.username>> >>
AdminUserFromJson(o) == [id |-> o[1][2], username |-> o[2][2]]

ItemsToJson(v) == [i \in 1..Len(v) |-> ItemToJson(v[i])]
ItemsFromJson(f) == [i \in 1..Len(f) |-> ItemFromJson(f[i])]
PresetsToJson(v) == [i \in 1..Len(v) |-> PresetToJson(v[i])]
SchedulesToJson(v) == [i \in 1..Len(v) |-> ScheduleToJson(v[i])]
SchedulesFromJson(f) == [i \in 1..Len(f) |-> ScheduleFromJson(f[i])]

(***************************************************************************)
(* The memory half of the store's mutations (under the collection lock).   *)
(***************************************************************************)
\* iter().position(|x| x.id == id): the first index holding id, 0 for None.
Position(v, id) ==
    IF \E i \in 1..Len(v) : v[i].id = id
    THEN CHOOSE i \in 1..Len(v) :
             /\ v[i].id = id
             /\ \A j \in 1..(i - 1) : v[j].id # id
    ELSE 0

Push(v, e) == Append(v, e)
ReplaceAt(v, i, e) == [v EXCEPT ![i] = e]
RemoveAt(v, i) == [j \in 1..(Len(v) - 1) |-> IF j < i THEN v[j] ELSE v[j + 1]]

(***************************************************************************)
(* StoreSpec: concurrent callers of add_menu_item / update_menu_item /      *)
(* delete_menu_item.  A mutation locks the collection, changes the vector, *)
(* drops the lock, and then save_menu_items locks it again, serialises the *)
(* vector and writes the file while holding the lock.                      *)
(***************************************************************************)
\* The errors of the store (StorageError, its conversion to AppError) as the
\* values a caller can inspect: the variant and the message text.
NoError == [kind |-> "None", message |-> [text |-> "", id |-> 0]]
StorageError_Io(e) == [kind |-> "Io", source |-> e]
AppError_Storage(msg) == [kind |-> "Storage", message |-> msg]
StorageError_Json(e) == [kind |-> "Json", source |-> e]
StorageError_PoisonError == [kind |-> "PoisonError", source |-> "Mutex poison error"]
\* impl From<StorageError> for AppError: Io(io_error) => Storage(io_error.to_string()),
\* Json(json_error) => Storage(json_error.to_string()), PoisonError => Storage("Poison error").
AppErrorFrom(se) ==
    IF se.kind = "PoisonError" THEN AppError_Storage([text |-> "Poison error", id |-> 0])
    ELSE AppError_Storage([text |-> se.source, id |-> 0])
ItemNotFound(id) == AppError_Storage([text |-> "Menu item with id {} not found", id |-> id])
\* The io::ErrorKind values fs::write fails with.
WriteErrors == {"PermissionDenied", "StorageFull"}

NoCall == [op |-> "none", id |-> 0, item |-> MenuItem(0, FALSE)]
AddCall(it) == [op |-> "add", id |-> it.id, item |-> it]
UpdateCall(id, it) == [op |-> "update", id |-> id, item |-> it]
DeleteCall(id) == [op |-> "delete", id |-> id, item |-> MenuItem(0, FALSE)]

\* A caller enters add_menu_item, update_menu_item or delete_menu_item.
StoreCall(t) ==
    /\ tpc[t] = "idle"
    /\ ext_ops < MaxCalls
    /\ \E c \in {AddCall(MenuItem(NumItems + ext_ops + 1, b)) : b \in BOOLEAN}
             \cup {UpdateCall(i, MenuItem(i, b)) : i \in 1..(NumItems + 1), b \in BOOLEAN}
             \cup {DeleteCall(i) : i \in 1..(NumItems + 1)} :
           targ' = [targ EXCEPT ![t] = c]
    /\ tpc' = [tpc EXCEPT ![t] = "lock_mem"]
    /\ tres' = [tres EXCEPT ![t] = "pending"]
    /\ terr' = [terr EXCEPT ![t] = NoError]
    /\ ext_ops' = ext_ops + 1
    /\ UNCHANGED <<now, storeVars, next_id, taskVars, items_touched, lock, collVars, timerVars>>

\* self.menu_items.lock() of a mutation, never checking the mutex (mutant).
LockMemUnchecked(t) ==
    /\ tpc[t] = "lock_mem"
    /\ lock' = t
    /\ tpc' = [tpc EXCEPT ![t] = "in_mem"]
    /\ UNCHANGED <<now, storeVars, next_id, ext_ops, taskVars, items_touched,
                   targ, tres, terr, collVars, timerVars>>

\* self.menu_items.lock() at the head of a mutation.
LockMem(t) ==
    /\ tpc[t] = "lock_mem"
    /\ lock = 0
    /\ lock' = t
    /\ tpc' = [tpc EXCEPT ![t] = "in_mem"]
    /\ UNCHANGED <<now, storeVars, next_id, ext_ops, taskVars, items_touched,
                   targ, tres, terr, collVars, timerVars>>

\* The vector after the memory half of call c, and whether the id was found.
MemFound(v, c) == c.op = "add" \/ Position(v, c.id) # 0
MemAfter(v, c) ==
    CASE c.op = "add" -> Push(v, c.item)
      [] c.op = "update" /\ Position(v, c.id) # 0 -> ReplaceAt(v, Position(v, c.id), c.item)
      [] c.op = "delete" /\ Position(v, c.id) # 0 -> RemoveAt(v, Position(v, c.id))
      [] OTHER -> v

\* The memory half with an update of a missing id inserting it (mutant).
MemStepUpsert(t) ==
    /\ tpc[t] = "in_mem"
    /\ menu_items' = IF MemFound(menu_items, targ[t])
                     THEN MemAfter(menu_items, targ[t])
                     ELSE Push(menu_items, targ[t].item)
    /\ lock' = 0
    /\ tpc' = [tpc EXCEPT ![t] = IF MemFound(menu_items, targ[t]) THEN "lock_save" ELSE "idle"]
    /\ tres' = [tres EXCEPT ![t] = IF MemFound(menu_items, targ[t]) THEN "pending" ELSE "NotFound"]
    /\ terr' = [terr EXCEPT ![t] = IF MemFound(menu_items, targ[t]) THEN NoError
                                    ELSE ItemNotFound(targ[t].id)]
    /\ UNCHANGED <<now, menu_presets, menu_schedules, menu_items_file, menu_presets_file,
                   menu_schedules_file, next_id, ext_ops, taskVars, items_touched,
                   targ, collVars, timerVars>>

\* The memory half returning Ok without calling save_menu_items (mutant).
MemStepNoSave(t) ==
    /\ tpc[t] = "in_mem"
    /\ menu_items' = MemAfter(menu_items, targ[t])
    /\ lock' = 0
    /\ tpc' = [tpc EXCEPT ![t] = "idle"]
    /\ tres' = [tres EXCEPT ![t] = IF MemFound(menu_items, targ[t]) THEN "Ok" ELSE "NotFound"]
    /\ terr' = [terr EXCEPT ![t] = IF MemFound(menu_items, targ[t]) THEN NoError
                                    ELSE ItemNotFound(targ[t].id)]
    /\ UNCHANGED <<now, menu_presets, menu_schedules, menu_items_file, menu_presets_file,
                   menu_schedules_file, next_id, ext_ops, taskVars, items_touched,
                   targ, collVars, timerVars>>

\* The memory half: push / replace / remove and drop(menu_items); a missing
\* id returns the "not found" error without calling save_menu_items.
MemStep(t) ==
    /\ tpc[t] = "in_mem"
    /\ menu_items' = MemAfter(menu_items, targ[t])
    /\ lock' = 0
    /\ tpc' = [tpc EXCEPT ![t] = IF MemFound(menu_items, targ[t]) THEN "lock_save" ELSE "idle"]
    /\ tres' = [tres EXCEPT ![t] = IF MemFound(menu_items, targ[t]) THEN "pending" ELSE "NotFound"]
    /\ terr' = [terr EXCEPT ![t] = IF MemFound(menu_items, targ[t]) THEN NoError
                                    ELSE ItemNotFound(targ[t].id)]
    /\ UNCHANGED <<now, menu_presets, menu_schedules, menu_items_file, menu_presets_file,
                   menu_schedules_file, next_id, ext_ops, taskVars, items_touched,
                   targ, collVars, timerVars>>

\* save_menu_items: self.menu_items.lock().
LockSave(t) ==
    /\ tpc[t] = "lock_save"
    /\ lock = 0
    /\ lock' = t
    /\ tpc' = [tpc EXCEPT ![t] = "in_save"]
    /\ UNCHANGED <<now, storeVars, next_id, ext_ops, taskVars, items_touched,
                   targ, tres, terr, collVars, timerVars>>

\* save_menu_items: to_string_pretty(&*menu_items), fs::write, the guard dropped
\* at the end of the function; the mutation returns Ok.
WriteFile(t) ==
    /\ tpc[t] = "in_save"
    /\ menu_items_file' = ItemsToJson(menu_items)
    /\ lock' = 0
    /\ tpc' = [tpc EXCEPT ![t] = "idle"]
    /\ tres' = [tres EXCEPT ![t] = "Ok"]
    /\ UNCHANGED <<now, menu_items, menu_presets, menu_schedules, menu_presets_file,
                   menu_schedules_file, next_id, ext_ops, taskVars, items_touched,
                   targ, terr, collVars, timerVars>>

\* save_menu_items with fs::write failing (mutant: the memory is reloaded from
\* the file, undoing the change).
WriteFileFailsRollback(t) ==
    /\ tpc[t] = "in_save"
    /\ \E e \in WriteErrors :
           terr' = [terr EXCEPT ![t] = AppErrorFrom(StorageError_Io(e))]
    /\ menu_items' = ItemsFromJson(menu_items_file)
    /\ lock' = 0
    /\ tpc' = [tpc EXCEPT ![t] = "idle"]
    /\ tres' = [tres EXCEPT ![t] = "WriteFailed"]
    /\ UNCHANGED <<now, menu_presets, menu_schedules, menu_items_file, menu_presets_file,
                   menu_schedules_file, next_id, ext_ops, taskVars, items_touched,
                   targ, collVars, timerVars>>

\* save_menu_items with fs::write failing: the `?` returns StorageError::Io, the
\* guard is dropped, and the mutation returns the error converted to AppError;
\* neither the vector nor the file is written.
WriteFileFails(t) ==
    /\ tpc[t] = "in_save"
    /\ \E e \in WriteErrors :
           terr' = [terr EXCEPT ![t] = AppErrorFrom(StorageError_Io(e))]
    /\ lock' = 0
    /\ tpc' = [tpc EXCEPT ![t] = "idle"]
    /\ tres' = [tres EXCEPT ![t] = "WriteFailed"]
    /\ UNCHANGED <<now, storeVars, next_id, ext_ops, taskVars, items_touched, targ, collVars, timerVars>>

StoreNext ==
    \E t \in Threads :
        \/ StoreCall(t)
        \/ LockMem(t)
        \/ MemStep(t)
        \/ LockSave(t)
        \/ WriteFile(t)

\* StoreSpec with file writes that may fail.
StoreFaultNext ==
    \/ StoreNext
    \/ \E t \in Threads : WriteFileFails(t)

(***************************************************************************)
(* Spec: the store calls as the engine and the handlers make them, each    *)
(* one step: the memory update and, when the id was found, the rewrite of  *)
(* the collection's file by save_*.                                        *)
(***************************************************************************)
storage_add_menu_schedule(s) ==
    /\ menu_schedules' = Push(menu_schedules, s)
    /\ menu_schedules_file' = SchedulesToJson(Push(menu_schedules, s))

\* update_menu_schedule pushing the schedule when the id is not stored (mutant).
storage_upsert_menu_schedule(id, s) ==
    LET i == Position(menu_schedules, id)
        v == IF i # 0 THEN ReplaceAt(menu_schedules, i, s) ELSE Push(menu_schedules, s)
    IN /\ menu_schedules' = v
       /\ menu_schedules_file' = SchedulesToJson(v)

storage_update_menu_schedule(id, s) ==
    LET i == Position(menu_schedules, id) IN
    /\ menu_schedules' = IF i # 0 THEN ReplaceAt(menu_schedules, i, s) ELSE menu_schedules
    /\ menu_schedules_file' = IF i # 0 THEN SchedulesToJson(ReplaceAt(menu_schedules, i, s))
                              ELSE menu_schedules_file

storage_delete_menu_schedule(id) ==
    LET i == Position(menu_schedules, id) IN
    /\ menu_schedules' = IF i # 0 THEN RemoveAt(menu_schedules, i) ELSE menu_schedules
    /\ menu_schedules_file' = IF i # 0 THEN SchedulesToJson(RemoveAt(menu_schedules, i))
                              ELSE menu_schedules_file

\* add_menu_item, storage.rs 394-403: the item is pushed and the file rewritten.
storage_add_menu_item(it) ==
    /\ menu_items' = Push(menu_items, it)
    /\ menu_items_file' = ItemsToJson(Push(menu_items, it))

storage_update_menu_item(id, it) ==
    LET i == Position(menu_items, id) IN
    /\ menu_items' = IF i # 0 THEN ReplaceAt(menu_items, i, it) ELSE menu_items
    /\ menu_items_file' = IF i # 0 THEN ItemsToJson(ReplaceAt(menu_items, i, it))
                          ELSE menu_items_file

storage_delete_menu_item(id) ==
    LET i == Position(menu_items, id) IN
    /\ menu_items' = IF i # 0 THEN RemoveAt(menu_items, i) ELSE menu_items
    /\ menu_items_file' = IF i # 0 THEN ItemsToJson(RemoveAt(menu_items, i))
                          ELSE menu_items_file

storage_delete_menu_preset(id) ==
    LET i == Position(menu_presets, id) IN
    /\ menu_presets' = IF i # 0 THEN RemoveAt(menu_presets, i) ELSE menu_presets
    /\ menu_presets_file' = IF i # 0 THEN PresetsToJson(RemoveAt(menu_presets, i))
                            ELSE menu_presets_file

(***************************************************************************)
(* scheduler.rs: the pure parts.                                           *)
(***************************************************************************)
Day == 1
Week == 7

Overlaps(a, b) == a.start_time <= b.end_time /\ a.end_time >= b.start_time

\* The for loop of has_schedule_conflict from position i on: the index of the
\* element returned, 0 for None.
RECURSIVE conflict_from(_, _, _)
conflict_from(s, existing, i) ==
    IF i > Len(existing) THEN 0
    ELSE IF existing[i].id = s.id THEN conflict_from(s, existing, i + 1)
    ELSE IF Overlaps(s, existing[i]) THEN i
    ELSE conflict_from(s, existing, i + 1)

\* The loop without the test that skips the schedule itself.
RECURSIVE conflict_from_no_skip(_, _, _)
conflict_from_no_skip(s, existing, i) ==
    IF i > Len(existing) THEN 0
    ELSE IF Overlaps(s, existing[i]) THEN i
    ELSE conflict_from_no_skip(s, existing, i + 1)

\* The loop passing over the schedules that are neither Pending nor Active.
RECURSIVE conflict_from_live(_, _, _)
conflict_from_live(s, existing, i) ==
    IF i > Len(existing) THEN 0
    ELSE IF existing[i].id = s.id THEN conflict_from_live(s, existing, i + 1)
    ELSE IF existing[i].status \in {"Pending", "Active"} /\ Overlaps(s, existing[i]) THEN i
    ELSE conflict_from_live(s, existing, i + 1)

\* has_schedule_conflict comparing only with Pending and Active schedules (mutant).
has_schedule_conflict_live(s, existing) == conflict_from_live(s, existing, 1)

\* has_schedule_conflict comparing the schedule with itself as well (mutant).
has_schedule_conflict_no_skip(s, existing) == conflict_from_no_skip(s, existing, 1)

\* has_schedule_conflict: the index in `existing` of the first other schedule
\* whose closed interval overlaps s's, 0 for None.
has_schedule_conflict(s, existing) == conflict_from(s, existing, 1)

\* A schedule counted as due only after its start_time has passed (mutant).
is_schedule_due_strict(s, t) == s.start_time < t

\* lines 141-144: schedule.start_time <= now.
is_schedule_due(s, t) == s.start_time <= t

\* A schedule counted as ended only after its end_time has passed (mutant).
HasEndedStrict(s, t) == s.end_time < t

\* lines 122 and 187: schedule.end_time <= now.
HasEnded(s, t) == s.end_time <= t

\* The calendar of a 365-day year, for date_naive().checked_add_months(1).
DaysInMonth == <<31, 28, 31, 30, 31, 30, 31, 31, 30, 31, 30, 31>>
DaysInYear == 365
RECURSIVE DaysBefore(_)
DaysBefore(m) == IF m <= 1 THEN 0 ELSE DaysBefore(m - 1) + DaysInMonth[m - 1]
MonthOf(doy) == CHOOSE m \in 1..12 : DaysBefore(m) <= doy /\ doy < DaysBefore(m) + DaysInMonth[m]
Min(a, b) == IF a <= b THEN a ELSE b
NaiveDateMax == 262142 * DaysInYear

None == [some |-> FALSE, t |-> 0]
Some(t) == [some |-> TRUE, t |-> t]

checked_add_months_1(d) ==
    LET y == d \div DaysInYear
        doy == d % DaysInYear
        m == MonthOf(doy)
        dom == doy - DaysBefore(m) + 1
        m2 == IF m = 12 THEN 1 ELSE m + 1
        y2 == IF m = 12 THEN y + 1 ELSE y
        r == y2 * DaysInYear + DaysBefore(m2) + Min(dom, DaysInMonth[m2]) - 1
    IN IF r <= NaiveDateMax THEN Some(r) ELSE None

\* The next occurrence counted from the current time instead of the stored
\* start_time (mutant).
calculate_next_occurrence_from_now(s) ==
    CASE s.recurrence = RecDaily -> Some(now + Day)
      [] s.recurrence = RecWeekly -> Some(now + Week)
      [] s.recurrence = RecMonthly -> checked_add_months_1(now)
      [] OTHER -> None

\* calculate_next_occurrence: the `_now` argument is not used.
calculate_next_occurrence(s) ==
    CASE s.recurrence = RecDaily -> Some(s.start_time + Day)
      [] s.recurrence = RecWeekly -> Some(s.start_time + Week)
      [] s.recurrence = RecMonthly -> checked_add_months_1(s.start_time)
      [] OTHER -> None

\* The rewrite after the pass with a Custom schedule left Active until its
\* end_time (mutant).
RescheduledCustomActive(s, t) ==
    IF HasEnded(s, t)
    THEN [s EXCEPT !.status = "Ended", !.error_message = NoMessage]
    ELSE IF s.recurrence \in {RecDaily, RecWeekly, RecMonthly}
    THEN LET next == calculate_next_occurrence(s) IN
         IF next.some /\ next.t <= s.end_time
         THEN [s EXCEPT !.start_time = next.t, !.status = "Pending",
                        !.error_message = NoMessage]
         ELSE [s EXCEPT !.status = "Ended",
                        !.error_message = <<"Next occurrence is after schedule end time">>]
    ELSE [s EXCEPT !.status = "Active", !.error_message = NoMessage]

\* The rewrite after the pass re-arming only when the next occurrence is
\* strictly before end_time (mutant).
RescheduledStrictEnd(s, t) ==
    IF HasEnded(s, t)
    THEN [s EXCEPT !.status = "Ended", !.error_message = NoMessage]
    ELSE IF s.recurrence \in {RecDaily, RecWeekly, RecMonthly}
    THEN LET next == calculate_next_occurrence(s) IN
         IF next.some
         THEN IF next.t < s.end_time
              THEN [s EXCEPT !.start_time = next.t, !.status = "Pending",
                             !.error_message = NoMessage]
              ELSE [s EXCEPT !.status = "Ended",
                             !.error_message = <<"Next occurrence is after schedule end time">>]
         ELSE [s EXCEPT !.status = "Ended",
                        !.error_message = <<"Cannot calculate next occurrence">>]
    ELSE [s EXCEPT !.status = "Ended", !.error_message = NoMessage]

\* The rewrite after the pass with a Custom schedule made Pending again (mutant).
RescheduledCustomPending(s, t) ==
    IF HasEnded(s, t)
    THEN [s EXCEPT !.status = "Ended", !.error_message = NoMessage]
    ELSE IF s.recurrence \in {RecDaily, RecWeekly, RecMonthly}
    THEN LET next == calculate_next_occurrence(s) IN
         IF next.some
         THEN IF next.t <= s.end_time
              THEN [s EXCEPT !.start_time = next.t, !.status = "Pending",
                             !.error_message = NoMessage]
              ELSE [s EXCEPT !.status = "Ended",
                             !.error_message = <<"Next occurrence is after schedule end time">>]
         ELSE [s EXCEPT !.status = "Ended",
                        !.error_message = <<"Cannot calculate next occurrence">>]
    ELSE [s EXCEPT !.status = "Pending", !.error_message = NoMessage]

\* The rewrite after the pass moving end_time along with start_time when it
\* re-arms a recurring schedule (mutant).
RescheduledSliding(s, t) ==
    IF HasEnded(s, t)
    THEN [s EXCEPT !.status = "Ended", !.error_message = NoMessage]
    ELSE IF s.recurrence \in {RecDaily, RecWeekly, RecMonthly}
    THEN LET next == calculate_next_occurrence(s) IN
         IF next.some
         THEN [s EXCEPT !.start_time = next.t,
                        !.end_time = s.end_time + (next.t - s.start_time),
                        !.status = "Pending", !.error_message = NoMessage]
         ELSE [s EXCEPT !.status = "Ended",
                        !.error_message = <<"Cannot calculate next occurrence">>]
    ELSE [s EXCEPT !.status = "Ended", !.error_message = NoMessage]

\* execute_schedule, lines 183-227: the schedule as rewritten after the pass.
Rescheduled(s, t) ==
    IF HasEnded(s, t)
    THEN [s EXCEPT !.status = "Ended", !.error_message = NoMessage]
    ELSE IF s.recurrence \in {RecDaily, RecWeekly, RecMonthly}
    THEN LET next == calculate_next_occurrence(s) IN
         IF next.some
         THEN IF next.t <= s.end_time
              THEN [s EXCEPT !.start_time = next.t, !.status = "Pending",
                             !.error_message = NoMessage]
              ELSE [s EXCEPT !.status = "Ended",
                             !.error_message = <<"Next occurrence is after schedule end time">>]
         ELSE [s EXCEPT !.status = "Ended",
                        !.error_message = <<"Cannot calculate next occurrence">>]
    ELSE [s EXCEPT !.status = "Ended", !.error_message = NoMessage]

(***************************************************************************)
(* handlers.rs: the requests.  A handler's reads and its store call are    *)
(* one step.                                                               *)
(***************************************************************************)
MissingPreset == Cardinality(PresetIds) + 1
BadText == "Other"

\* The creation requests served: the start among the first instants, every end
\* over Times (inverted and empty intervals included), every preset, Custom
\* with every status text and Daily as Pending.  The other recurrence kinds
\* are reached through update requests.
RequestStarts == {t \in Times : t <= 1}
CreateRequests ==
    {[preset_id |-> p, start_time |-> st, end_time |-> en, recurrence |-> r.rec,
      status |-> r.status] :
        p \in PresetIds \cup {MissingPreset}, st \in RequestStarts, en \in Times,
        r \in {[rec |-> x, status |-> "Pending"] : x \in {RecDaily, BadText}}
              \cup {[rec |-> RecCustom, status |-> x] : x \in DeclaredStatus \cup {BadText}}}

NoEdit == [preset_id |-> 0, start_time |-> 0 - 1, end_time |-> 0 - 1,
           recurrence |-> "", status |-> ""]
\* The update requests served: one optional field given at a time.
UpdateRequests ==
    {[NoEdit EXCEPT !.preset_id = p] : p \in PresetIds \cup {MissingPreset}}
    \cup {[NoEdit EXCEPT !.start_time = t] : t \in Times}
    \cup {[NoEdit EXCEPT !.end_time = t] : t \in Times}
    \cup {[NoEdit EXCEPT !.recurrence = r] : r \in ScheduleRecurrence \cup {BadText}}
    \cup {[NoEdit EXCEPT !.status = x] : x \in DeclaredStatus \cup {BadText}}

HasId(v, id) == \E i \in 1..Len(v) : v[i].id = id

\* create_menu_schedule, lines 558-567: the handler's own conflict test.
CreateConflict(req) ==
    \E i \in 1..Len(menu_schedules) :
        LET s == menu_schedules[i] IN
        /\ s.preset_id = req.preset_id
        /\ \/ s.start_time <= req.start_time /\ s.end_time >= req.start_time
           \/ s.start_time <= req.end_time /\ s.end_time >= req.end_time
           \/ s.start_time >= req.start_time /\ s.end_time <= req.end_time

CreateAccepted(req) ==
    /\ HasId(menu_presets, req.preset_id)
    /\ req.recurrence \in ScheduleRecurrence
    /\ req.status \in DeclaredStatus
    /\ ~CreateConflict(req)

\* create_menu_schedule, lines 547-552 and 577: the status stored.
NewScheduleStatus(req) == req.status

handlers_create_menu_schedule(req) ==
    /\ ext_ops < MaxExternalOps
    /\ next_id <= MaxSchedules
    /\ ext_ops' = ext_ops + 1
    /\ IF CreateAccepted(req)
       THEN /\ storage_add_menu_schedule(
                   MenuSchedule(next_id, req.preset_id, req.start_time, req.end_time,
                                req.recurrence, NewScheduleStatus(req)))
            /\ next_id' = next_id + 1
       ELSE UNCHANGED <<menu_schedules, menu_schedules_file, next_id>>
    /\ UNCHANGED <<now, menu_items, menu_presets, menu_items_file, menu_presets_file,
                   taskVars, items_touched, threadVars, collVars, timerVars>>

\* update_menu_schedule, lines 634-681: the fields of the request applied.
Edited(s, req) ==
    [s EXCEPT !.preset_id = IF req.preset_id # 0 THEN req.preset_id ELSE @,
              !.start_time = IF req.start_time >= 0 THEN req.start_time ELSE @,
              !.end_time = IF req.end_time >= 0 THEN req.end_time ELSE @,
              !.recurrence = IF req.recurrence # "" THEN req.recurrence ELSE @,
              !.status = IF req.status # "" THEN req.status ELSE @]

UpdateAccepted(id, req) ==
    /\ HasId(menu_schedules, id)
    /\ req.preset_id # 0 => HasId(menu_presets, req.preset_id)
    /\ req.recurrence # "" => req.recurrence \in ScheduleRecurrence
    /\ req.status # "" => req.status \in DeclaredStatus

handlers_update_menu_schedule(id, req) ==
    /\ ext_ops < MaxExternalOps
    /\ ext_ops' = ext_ops + 1
    /\ IF UpdateAccepted(id, req)
       THEN storage_update_menu_schedule(
                id, Edited(menu_schedules[Position(menu_schedules, id)], req))
       ELSE UNCHANGED <<menu_schedules, menu_schedules_file>>
    /\ UNCHANGED <<now, menu_items, menu_presets, menu_items_file, menu_presets_file,
                   next_id, taskVars, items_touched, threadVars, collVars, timerVars>>

handlers_delete_menu_schedule(id) ==
    /\ ext_ops < MaxExternalOps
    /\ ext_ops' = ext_ops + 1
    /\ storage_delete_menu_schedule(id)
    /\ UNCHANGED <<now, menu_items, menu_presets, menu_items_file, menu_presets_file,
                   next_id, taskVars, items_touched, threadVars, collVars, timerVars>>

handlers_delete_menu_preset(id) ==
    /\ ext_ops < MaxExternalOps
    /\ ext_ops' = ext_ops + 1
    /\ storage_delete_menu_preset(id)
    /\ UNCHANGED <<now, menu_items, menu_schedules, menu_items_file, menu_schedules_file,
                   next_id, taskVars, items_touched, threadVars, collVars, timerVars>>

\* The pass of execute_schedule has read the item list and not yet finished.
InPass == pc = "exec_item_loop"

\* update_menu_item (handler) with is_available given.
handlers_update_menu_item(id, avail) ==
    /\ ext_ops < MaxExternalOps
    /\ ext_ops' = ext_ops + 1
    /\ IF HasId(menu_items, id)
       THEN /\ storage_update_menu_item(id, MenuItem(id, avail))
            /\ items_touched' = (items_touched \/ InPass)
       ELSE UNCHANGED <<menu_items, menu_items_file, items_touched>>
    /\ UNCHANGED <<now, menu_presets, menu_schedules, menu_presets_file,
                   menu_schedules_file, next_id, taskVars, threadVars, collVars, timerVars>>

\* The id of a created item (Uuid::new_v4()): one no item has or had.  Created
\* items are never deleted by the requests served, so the count of them is
\* fresh.
NewItemId ==
    NumItems + 1 + Cardinality({i \in 1..Len(menu_items) : menu_items[i].id > NumItems})

\* create_menu_item (handler), lines 138-167, with a valid category.
handlers_create_menu_item(avail) ==
    /\ ext_ops < MaxExternalOps
    /\ ext_ops' = ext_ops + 1
    /\ storage_add_menu_item(MenuItem(NewItemId, avail))
    /\ items_touched' = (items_touched \/ InPass)
    /\ UNCHANGED <<now, menu_presets, menu_schedules, menu_presets_file,
                   menu_schedules_file, next_id, taskVars, threadVars, collVars, timerVars>>

handlers_delete_menu_item(id) ==
    /\ ext_ops < MaxExternalOps
    /\ ext_ops' = ext_ops + 1
    /\ storage_delete_menu_item(id)
    /\ items_touched' = (items_touched \/ (InPass /\ HasId(menu_items, id)))
    /\ UNCHANGED <<now, menu_presets, menu_schedules, menu_presets_file,
                   menu_schedules_file, next_id, taskVars, threadVars, collVars, timerVars>>

\* Utc::now() moves on.
AdvanceClock ==
    /\ now < MaxTime
    /\ now' = now + 1
    /\ UNCHANGED <<storeVars, next_id, ext_ops, taskVars, items_touched, threadVars, collVars, timerVars>>

(***************************************************************************)
(* scheduler.rs: the background task.                                      *)
(***************************************************************************)
NoSchedule == MenuSchedule(0, 0, 0, 0, RecCustom, "Pending")
NoPreset == MenuPreset(0, {})

engineUnchanged == <<next_id, ext_ops, threadVars, collVars, timerVars>>

\* run_scheduler, line 45: the interval's first, immediate tick is consumed.
SkipFirstTick ==
    /\ pc = "start"
    /\ pc' = "wait"
    /\ UNCHANGED <<now, storeVars, schedules, tick_now, idx, schedule, preset,
                   items_read, item_idx, exec_err, items_touched, engineUnchanged>>

\* run_scheduler, line 48, and check_and_execute_schedules, lines 63-66.
SchedulerTick ==
    /\ pc = "wait"
    /\ schedules' = menu_schedules
    /\ tick_now' = now
    /\ idx' = 1
    /\ pc' = "loop"
    /\ UNCHANGED <<now, storeVars, schedule, preset, items_read, item_idx, exec_err,
                   items_touched, engineUnchanged>>

AtSchedule == pc = "loop" /\ idx <= Len(schedules)
Current == schedules[idx]

\* The test of line 73 taking a Failed schedule for another attempt (mutant).
IsDueRetry(s) == s.status \in {"Pending", "Failed"} /\ is_schedule_due(s, tick_now)

\* The test of line 73 passing over a schedule whose end_time has passed (mutant).
IsDueInWindow(s) ==
    s.status = "Pending" /\ is_schedule_due(s, tick_now) /\ ~HasEnded(s, tick_now)

\* lines 72-73: the schedule is Pending and due.
IsDuePending(s) == s.status = "Pending" /\ is_schedule_due(s, tick_now)

passUnchanged == <<schedule, preset, items_read, item_idx, exec_err, items_touched>>

\* lines 69-73 and 120-122: a schedule that is neither due nor an ended Active one.
SkipSchedule ==
    /\ AtSchedule
    /\ ~IsDuePending(Current)
    /\ ~(Current.status = "Active" /\ HasEnded(Current, tick_now))
    /\ idx' = idx + 1
    /\ UNCHANGED <<now, storeVars, pc, schedules, tick_now, passUnchanged, engineUnchanged>>

\* The message naming the schedule itself instead of the conflicting one (mutant).
ConflictMessageSelf(other) == <<"Conflicts with schedule", Current.id>>

\* lines 86-89: the message of a conflicted schedule.
ConflictMessage(other) == <<"Conflicts with schedule", other.id>>

\* lines 75-99: a due schedule with a conflict.
MarkConflicted ==
    /\ AtSchedule
    /\ IsDuePending(Current)
    /\ has_schedule_conflict(Current, schedules) # 0
    /\ LET other == schedules[has_schedule_conflict(Current, schedules)] IN
       storage_update_menu_schedule(
           Current.id,
           [Current EXCEPT !.status = "Conflicted", !.error_message = ConflictMessage(other)])
    /\ idx' = idx + 1
    /\ UNCHANGED <<now, menu_items, menu_presets, menu_items_file, menu_presets_file,
                   pc, schedules, tick_now, passUnchanged, engineUnchanged>>

\* execute_schedule going on to the preset and the items whether or not its
\* Active write succeeded (mutant).
BeginExecuteUnchecked ==
    /\ AtSchedule
    /\ IsDuePending(Current)
    /\ has_schedule_conflict(Current, schedules) = 0
    /\ schedule' = [Current EXCEPT !.status = "Active"]
    /\ storage_update_menu_schedule(Current.id, [Current EXCEPT !.status = "Active"])
    /\ pc' = "exec_presets"
    /\ UNCHANGED <<now, menu_items, menu_presets, menu_items_file, menu_presets_file,
                   schedules, tick_now, idx, preset, items_read, item_idx, exec_err,
                   items_touched, engineUnchanged>>

\* lines 107 and 151-154: execute_schedule is entered and writes Active.
BeginExecute ==
    /\ AtSchedule
    /\ IsDuePending(Current)
    /\ has_schedule_conflict(Current, schedules) = 0
    /\ schedule' = [Current EXCEPT !.status = "Active"]
    /\ storage_update_menu_schedule(Current.id, [Current EXCEPT !.status = "Active"])
    /\ IF HasId(menu_schedules, Current.id)
       THEN pc' = "exec_presets" /\ exec_err' = exec_err
       ELSE pc' = "failed" /\ exec_err' = <<"Menu schedule not found", Current.id>>
    /\ UNCHANGED <<now, menu_items, menu_presets, menu_items_file, menu_presets_file,
                   schedules, tick_now, idx, preset, items_read, item_idx,
                   items_touched, engineUnchanged>>

\* lines 120-135: an Active schedule whose end_time has passed.
EndActive ==
    /\ AtSchedule
    /\ Current.status = "Active"
    /\ HasEnded(Current, tick_now)
    /\ storage_update_menu_schedule(
           Current.id, [Current EXCEPT !.status = "Ended", !.error_message = NoMessage])
    /\ idx' = idx + 1
    /\ UNCHANGED <<now, menu_items, menu_presets, menu_items_file, menu_presets_file,
                   pc, schedules, tick_now, passUnchanged, engineUnchanged>>

\* The preset lookup falling back to an empty preset when the id is missing (mutant).
ExecGetPresetOrEmpty ==
    /\ pc = "exec_presets"
    /\ preset' = IF HasId(menu_presets, schedule.preset_id)
                 THEN menu_presets[Position(menu_presets, schedule.preset_id)]
                 ELSE NoPreset
    /\ pc' = "exec_items"
    /\ UNCHANGED <<now, storeVars, schedules, tick_now, idx, schedule, items_read,
                   item_idx, exec_err, items_touched, engineUnchanged>>

\* lines 157-166: the preset is looked up.
ExecGetPreset ==
    /\ pc = "exec_presets"
    /\ IF HasId(menu_presets, schedule.preset_id)
       THEN /\ preset' = menu_presets[Position(menu_presets, schedule.preset_id)]
            /\ pc' = "exec_items"
            /\ exec_err' = exec_err
       ELSE /\ preset' = preset
            /\ pc' = "failed"
            /\ exec_err' = <<"Preset not found", schedule.preset_id>>
    /\ UNCHANGED <<now, storeVars, schedules, tick_now, idx, schedule, items_read,
                   item_idx, items_touched, engineUnchanged>>

\* line 169: the item list is read.
ExecGetItems ==
    /\ pc = "exec_items"
    /\ items_read' = menu_items
    /\ item_idx' = 1
    /\ items_touched' = FALSE
    /\ pc' = "exec_item_loop"
    /\ UNCHANGED <<now, storeVars, schedules, tick_now, idx, schedule, preset,
                   exec_err, engineUnchanged>>

\* The availability written with items outside the preset switched over (mutant).
PassAvailabilityToggle(ps, it) ==
    IF it.id \in ps.menu_item_ids THEN TRUE ELSE ~it.is_available

\* The availability written with items outside the preset left as read (mutant).
PassAvailabilityMerge(ps, it) == it.is_available \/ it.id \in ps.menu_item_ids

\* lines 175-179: the availability the pass gives an item.
PassAvailability(ps, it) == it.id \in ps.menu_item_ids

\* lines 174-181: the items the whole loop writes, from the list it read.
ExecutionPass(ps, v) ==
    [i \in 1..Len(v) |-> [v[i] EXCEPT !.is_available = PassAvailability(ps, v[i])]]

\* The item loop going on to the next item when update_menu_item does not find
\* the item (mutant).
ExecUpdateItemSkipMissing ==
    /\ pc = "exec_item_loop"
    /\ item_idx <= Len(items_read)
    /\ LET it == items_read[item_idx] IN
       storage_update_menu_item(
           it.id, [it EXCEPT !.is_available = PassAvailability(preset, it)])
    /\ item_idx' = item_idx + 1
    /\ UNCHANGED <<now, menu_presets, menu_schedules, menu_presets_file,
                   menu_schedules_file, pc, exec_err, schedules, tick_now, idx, schedule,
                   preset, items_read, items_touched, engineUnchanged>>

\* lines 174-181: one item of the pass is written.
ExecUpdateItem ==
    /\ pc = "exec_item_loop"
    /\ item_idx <= Len(items_read)
    /\ LET it == items_read[item_idx] IN
       /\ storage_update_menu_item(
              it.id, [it EXCEPT !.is_available = PassAvailability(preset, it)])
       /\ IF HasId(menu_items, it.id)
          THEN /\ item_idx' = item_idx + 1
               /\ UNCHANGED <<pc, exec_err>>
          ELSE /\ pc' = "failed"
               /\ exec_err' = <<"Menu item not found", it.id>>
               /\ item_idx' = item_idx
    /\ UNCHANGED <<now, menu_presets, menu_schedules, menu_presets_file,
                   menu_schedules_file, schedules, tick_now, idx, schedule, preset,
                   items_read, items_touched, engineUnchanged>>

\* execute_schedule returning after the item loop without its final write: the
\* schedule stays as the Active write left it (mutant).
ExecNoFinalWrite ==
    /\ pc = "exec_item_loop"
    /\ item_idx > Len(items_read)
    /\ pc' = "loop"
    /\ idx' = idx + 1
    /\ schedule' = NoSchedule
    /\ preset' = NoPreset
    /\ items_read' = <<>>
    /\ item_idx' = 1
    /\ items_touched' = FALSE
    /\ UNCHANGED <<now, storeVars, schedules, tick_now, exec_err, engineUnchanged>>

\* lines 183-236: the pass is over; the schedule is re-armed or ended and written.
ExecReschedule ==
    /\ pc = "exec_item_loop"
    /\ item_idx > Len(items_read)
    /\ storage_update_menu_schedule(schedule.id, Rescheduled(schedule, now))
    /\ IF HasId(menu_schedules, schedule.id)
       THEN /\ pc' = "loop"
            /\ idx' = idx + 1
            /\ exec_err' = exec_err
            /\ schedule' = NoSchedule
            /\ preset' = NoPreset
            /\ items_read' = <<>>
            /\ item_idx' = 1
            /\ items_touched' = FALSE
       ELSE /\ pc' = "failed"
            /\ exec_err' = <<"Menu schedule not found", schedule.id>>
            /\ UNCHANGED <<idx, schedule, preset, items_read, item_idx, items_touched>>
    /\ UNCHANGED <<now, menu_items, menu_presets, menu_items_file, menu_presets_file,
                   schedules, tick_now, engineUnchanged>>

\* The error of execute_schedule propagated with `?`: the tick returns early
\* and the remaining schedules wait for the next tick (mutant).
ExecFailedAborts ==
    /\ pc = "failed"
    /\ storage_update_menu_schedule(
           Current.id, [Current EXCEPT !.status = "Failed", !.error_message = exec_err])
    /\ pc' = "wait"
    /\ schedule' = NoSchedule
    /\ preset' = NoPreset
    /\ items_read' = <<>>
    /\ item_idx' = 1
    /\ exec_err' = NoMessage
    /\ items_touched' = FALSE
    /\ UNCHANGED <<now, menu_items, menu_presets, menu_items_file, menu_presets_file,
                   schedules, tick_now, idx, engineUnchanged>>

\* The error of execute_schedule unwrapped: the scheduler task panics and is
\* never run again (mutant).
ExecFailedPanics ==
    /\ pc = "failed"
    /\ pc' = "panicked"
    /\ UNCHANGED <<now, storeVars, schedules, tick_now, idx, passUnchanged,
                   engineUnchanged>>

\* lines 107-118: execute_schedule returned an error; Failed is written.
ExecFailed ==
    /\ pc = "failed"
    /\ storage_update_menu_schedule(
           Current.id, [Current EXCEPT !.status = "Failed", !.error_message = exec_err])
    /\ pc' = "loop"
    /\ idx' = idx + 1
    /\ schedule' = NoSchedule
    /\ preset' = NoPreset
    /\ items_read' = <<>>
    /\ item_idx' = 1
    /\ exec_err' = NoMessage
    /\ items_touched' = FALSE
    /\ UNCHANGED <<now, menu_items, menu_presets, menu_items_file, menu_presets_file,
                   schedules, tick_now, engineUnchanged>>

\* line 136: the for loop is over; the task waits for the next tick.
FinishTick ==
    /\ pc = "loop"
    /\ idx > Len(schedules)
    /\ pc' = "wait"
    /\ UNCHANGED <<now, storeVars, schedules, tick_now, idx, passUnchanged, engineUnchanged>>

(***************************************************************************)
(* CollSpec: the five collections of JsonStorage, each behind its own      *)
(* Mutex, and concurrent callers of their operations.  BootSpec:           *)
(* JsonStorage::new loading the five files, then load_* and save_*.        *)
(***************************************************************************)
\* The collections in the order JsonStorage::new loads them.
Collections == <<"menu_items", "notices", "admin_users", "menu_presets", "menu_schedules">>
CollectionSet == {Collections[i] : i \in 1..Len(Collections)}

\* The operations storage.rs has for a collection: admin users are only
\* listed, inserted and saved.
Ops(c) ==
    IF c = "admin_users" THEN {"list", "add", "save"}
    ELSE {"list", "add", "update", "delete", "save"}

\* serde's Serialize of an entity of collection c.
EntityToJson(c, e) ==
    CASE c = "menu_items" -> ItemToJson(e)
      [] c = "notices" -> NoticeToJson(e)
      [] c = "admin_users" -> AdminUserToJson(e)
      [] c = "menu_presets" -> PresetToJson(e)
      [] OTHER -> ScheduleToJson(e)

\* The field default of serde taken for the second member (mutant).
EntityFromJsonDefault(c, o) ==
    CASE c = "menu_items" -> ItemFromJson([o EXCEPT ![2] = <<"is_available", "false">>])
      [] c = "notices" -> NoticeFromJson([o EXCEPT ![2] = <<"is_active", "false">>])
      [] c = "admin_users" -> AdminUserFromJson([o EXCEPT ![2] = <<"username", "">>])
      [] c = "menu_presets" -> PresetFromJson([o EXCEPT ![2] = <<"menu_item_ids", <<>> >>])
      [] OTHER -> ScheduleFromJson([o EXCEPT ![2] = <<"preset_id", 0>>])

\* serde's Deserialize of an entity of collection c.
EntityFromJson(c, o) ==
    CASE c = "menu_items" -> ItemFromJson(o)
      [] c = "notices" -> NoticeFromJson(o)
      [] c = "admin_users" -> AdminUserFromJson(o)
      [] c = "menu_presets" -> PresetFromJson(o)
      [] OTHER -> ScheduleFromJson(o)

\* The members a JSON object needs to deserialize as an entity of c.
MembersOf(c) == IF c = "menu_schedules" THEN 7 ELSE 2
ObjectParses(c, o) ==
    /\ Len(o) = MembersOf(c)
    /\ c \in {"menu_items", "notices"} => o[2][2] \in {"true", "false"}
    /\ c = "menu_schedules" => (o[5][2] \in ScheduleRecurrence /\ o[6][2] \in ScheduleStatus)

\* serde_json::to_string_pretty of a collection.
to_string_pretty(c, v) == [i \in 1..Len(v) |-> EntityToJson(c, v[i])]

\* serde_json::from_str of a file's text: Err when an object does not parse.
from_str(c, text) ==
    IF \A i \in 1..Len(text) : ObjectParses(c, text[i])
    THEN [ok |-> TRUE, value |-> [i \in 1..Len(text) |-> EntityFromJson(c, text[i])]]
    ELSE [ok |-> FALSE, value |-> <<>>]

NoFile == [exists |-> FALSE, text |-> <<>>]
File(text) == [exists |-> TRUE, text |-> text]
\* A file whose only object lacks members.
MalformedFile == File(<< << <<"id", 1>> >> >>)

\* The entities the callers and the files of the model use.
Samples(c) ==
    CASE c = "menu_items" -> {MenuItem(i, b) : i \in 1..2, b \in BOOLEAN}
      [] c = "notices" -> {Notice(i, b) : i \in 1..2, b \in BOOLEAN}
      [] c = "admin_users" -> {AdminUser(i, n) : i \in 1..2, n \in {"admin", "chef"}}
      [] c = "menu_presets" -> {MenuPreset(i, ids) : i \in 1..2, ids \in {<<>>, <<2, 1>>}}
      [] OTHER -> {MenuSchedule(i, 1, 0, 1, RecDaily, st) : i \in 1..2, st \in {"Pending", "Ended"}}
FirstSample(c) == CHOOSE e \in Samples(c) : e.id = 1
NewSample(c) == CHOOSE e \in Samples(c) : e.id = 2
Vectors(c) == UNION {[1..n -> Samples(c)] : n \in 0..MaxVecLen}

\* The error an operation of collection c returns for StorageError se: the
\* item mutations return AppError, everything else StorageError.
Returned(call, se) ==
    IF call.coll = "menu_items" /\ call.op \in {"add", "update", "delete"}
    THEN AppErrorFrom(se) ELSE se
NotFoundError(call) ==
    IF call.coll = "menu_items" THEN ItemNotFound(call.id)
    ELSE StorageError_Io("NotFound")

Call(c, op, id, e) == [coll |-> c, op |-> op, id |-> id, item |-> e]
NoCollCall == Call("menu_items", "none", 0, MenuItem(0, FALSE))
MissingId == 9

CallsOf(c) ==
    {call \in {Call(c, "list", 0, FirstSample(c)), Call(c, "save", 0, FirstSample(c)),
               Call(c, "add", 2, NewSample(c)),
               Call(c, "update", 1, FirstSample(c)), Call(c, "update", MissingId, FirstSample(c)),
               Call(c, "delete", 1, FirstSample(c)), Call(c, "delete", MissingId, FirstSample(c))} :
        call.op \in Ops(c)}

collUnchanged == <<now, storeVars, next_id, taskVars, items_touched, lock, timerVars>>

\* A caller enters get_*, add_*, update_*, delete_* or save_* of a collection.
CollCall(t) ==
    /\ tpc[t] = "idle"
    /\ ext_ops < MaxCalls
    /\ \E c \in CollectionSet : \E call \in CallsOf(c) :
           /\ targ' = [targ EXCEPT ![t] = call]
           /\ tpc' = [tpc EXCEPT ![t] = CASE call.op = "list" -> "lock_list"
                                          [] call.op = "save" -> "lock_save"
                                          [] OTHER -> "lock_mem"]
    /\ tres' = [tres EXCEPT ![t] = "pending"]
    /\ terr' = [terr EXCEPT ![t] = NoError]
    /\ ext_ops' = ext_ops + 1
    /\ UNCHANGED <<collUnchanged, collVars>>

Waiting(t) == tpc[t] \in {"lock_list", "lock_mem", "lock_save"}
Holding(t) == tpc[t] \in {"in_list", "in_mem", "in_save"}
AfterLock(p) ==
    CASE p = "lock_list" -> "in_list"
      [] p = "lock_mem" -> "in_mem"
      [] OTHER -> "in_save"

\* One Mutex guarding the five collections (mutant): lock() waits for every
\* collection to be free.
AcquireGlobal(t) ==
    /\ Waiting(t)
    /\ \A c \in CollectionSet : mutex[c].owner = 0
    /\ LET c == targ[t].coll IN
       IF mutex[c].poisoned
       THEN /\ tpc' = [tpc EXCEPT ![t] = "idle"]
            /\ tres' = [tres EXCEPT ![t] = "PoisonError"]
            /\ terr' = [terr EXCEPT ![t] = Returned(targ[t], StorageError_PoisonError)]
            /\ UNCHANGED mutex
       ELSE /\ mutex' = [mutex EXCEPT ![c].owner = t]
            /\ tpc' = [tpc EXCEPT ![t] = AfterLock(tpc[t])]
            /\ UNCHANGED <<tres, terr>>
    /\ UNCHANGED <<collUnchanged, ext_ops, targ, mem, disk, boot, parsed>>

\* lock() taking a poisoned Mutex as a healthy one (mutant).
AcquireIgnoringPoison(t) ==
    /\ Waiting(t)
    /\ mutex[targ[t].coll].owner = 0
    /\ mutex' = [mutex EXCEPT ![targ[t].coll].owner = t]
    /\ tpc' = [tpc EXCEPT ![t] = AfterLock(tpc[t])]
    /\ UNCHANGED <<collUnchanged, ext_ops, targ, tres, terr, mem, disk, boot, parsed>>

\* self.<collection>.lock().map_err(|_| StorageError::PoisonError)?: the
\* caller waits for the collection's Mutex; a poisoned Mutex makes the
\* operation return the error, the guard inside the error dropped at once.
Acquire(t) ==
    /\ Waiting(t)
    /\ mutex[targ[t].coll].owner = 0
    /\ LET c == targ[t].coll IN
       IF mutex[c].poisoned
       THEN /\ tpc' = [tpc EXCEPT ![t] = "idle"]
            /\ tres' = [tres EXCEPT ![t] = "PoisonError"]
            /\ terr' = [terr EXCEPT ![t] = Returned(targ[t], StorageError_PoisonError)]
            /\ UNCHANGED mutex
       ELSE /\ mutex' = [mutex EXCEPT ![c].owner = t]
            /\ tpc' = [tpc EXCEPT ![t] = AfterLock(tpc[t])]
            /\ UNCHANGED <<tres, terr>>
    /\ UNCHANGED <<collUnchanged, ext_ops, targ, mem, disk, boot, parsed>>

\* get_*: Ok(collection.clone()), the guard dropped at the end of the function.
ListStep(t) ==
    /\ tpc[t] = "in_list"
    /\ mutex' = [mutex EXCEPT ![targ[t].coll].owner = 0]
    /\ tpc' = [tpc EXCEPT ![t] = "idle"]
    /\ tres' = [tres EXCEPT ![t] = "Ok"]
    /\ UNCHANGED <<collUnchanged, ext_ops, targ, terr, mem, disk, boot, parsed>>

\* The memory half of add_*, update_*, delete_*: push / replace / remove and
\* drop(guard); a missing id returns the not-found error without save_*.
CollMemStep(t) ==
    /\ tpc[t] = "in_mem"
    /\ LET c == targ[t].coll
           found == MemFound(mem[c], targ[t])
       IN /\ mem' = [mem EXCEPT ![c] = MemAfter(mem[c], targ[t])]
          /\ mutex' = [mutex EXCEPT ![c].owner = 0]
          /\ tpc' = [tpc EXCEPT ![t] = IF found THEN "lock_save" ELSE "idle"]
          /\ tres' = [tres EXCEPT ![t] = IF found THEN "pending" ELSE "NotFound"]
          /\ terr' = [terr EXCEPT ![t] = IF found THEN NoError ELSE NotFoundError(targ[t])]
    /\ UNCHANGED <<collUnchanged, ext_ops, targ, disk, boot, parsed>>

\* Vec::push panics on capacity overflow while the guard is held: unwinding
\* drops the guard, which poisons the Mutex; the call never returns.
PushPanics(t) ==
    /\ tpc[t] = "in_mem"
    /\ targ[t].op = "add"
    /\ mutex' = [mutex EXCEPT ![targ[t].coll] = [owner |-> 0, poisoned |-> TRUE]]
    /\ tpc' = [tpc EXCEPT ![t] = "panicked"]
    /\ tres' = [tres EXCEPT ![t] = "panicked"]
    /\ UNCHANGED <<collUnchanged, ext_ops, targ, terr, mem, disk, boot, parsed>>

\* save_*: to_string_pretty and fs::write under the guard.
CollWrite(t) ==
    /\ tpc[t] = "in_save"
    /\ LET c == targ[t].coll IN
       /\ disk' = [disk EXCEPT ![c] = File(to_string_pretty(c, mem[c]))]
       /\ mutex' = [mutex EXCEPT ![c].owner = 0]
    /\ tpc' = [tpc EXCEPT ![t] = "idle"]
    /\ tres' = [tres EXCEPT ![t] = "Ok"]
    /\ UNCHANGED <<collUnchanged, ext_ops, targ, terr, mem, boot, parsed>>

\* save_* with fs::write failing.
CollWriteFails(t) ==
    /\ tpc[t] = "in_save"
    /\ \E e \in WriteErrors :
           terr' = [terr EXCEPT ![t] = Returned(targ[t], StorageError_Io(e))]
    /\ mutex' = [mutex EXCEPT ![targ[t].coll].owner = 0]
    /\ tpc' = [tpc EXCEPT ![t] = "idle"]
    /\ tres' = [tres EXCEPT ![t] = "WriteFailed"]
    /\ UNCHANGED <<collUnchanged, ext_ops, targ, mem, disk, boot, parsed>>

CollNext ==
    \E t \in Threads :
        \/ CollCall(t)
        \/ Acquire(t)
        \/ ListStep(t)
        \/ CollMemStep(t)
        \/ PushPanics(t)
        \/ CollWrite(t)
        \/ CollWriteFails(t)

\* load_* of collection c: an absent file is created holding an empty
\* collection; the file is read and parsed, and the Vec replaced under the
\* guard.  A text that does not parse returns StorageError::Json before the
\* Mutex is touched.
LoadedFile(c) == IF disk[c].exists THEN disk[c] ELSE File(to_string_pretty(c, <<>>))
LoadOk(c) == from_str(c, LoadedFile(c).text).ok /\ ~mutex[c].poisoned
LoadError(c) ==
    IF ~from_str(c, LoadedFile(c).text).ok THEN StorageError_Json("invalid")
    ELSE IF mutex[c].poisoned THEN StorageError_PoisonError
    ELSE NoError

\* load_* keeping what the Vec held and appending the file's entities (mutant).
load_appending(c) ==
    /\ mutex[c].owner = 0
    /\ disk' = [disk EXCEPT ![c] = LoadedFile(c)]
    /\ mem' = IF LoadOk(c)
              THEN [mem EXCEPT ![c] = @ \o from_str(c, LoadedFile(c).text).value]
              ELSE mem
    /\ UNCHANGED mutex

load(c) ==
    /\ mutex[c].owner = 0
    /\ disk' = [disk EXCEPT ![c] = LoadedFile(c)]
    /\ mem' = IF LoadOk(c)
              THEN [mem EXCEPT ![c] = from_str(c, LoadedFile(c).text).value]
              ELSE mem
    /\ UNCHANGED mutex

\* A caller enters load_* of a collection of the constructed store.
LoadCall(t) ==
    /\ tpc[t] = "idle"
    /\ ext_ops < MaxCalls
    /\ \E c \in CollectionSet :
           targ' = [targ EXCEPT ![t] = Call(c, "load", 0, FirstSample(c))]
    /\ tpc' = [tpc EXCEPT ![t] = "load_read"]
    /\ tres' = [tres EXCEPT ![t] = "pending"]
    /\ terr' = [terr EXCEPT ![t] = NoError]
    /\ ext_ops' = ext_ops + 1
    /\ UNCHANGED <<collUnchanged, collVars>>

\* load_*, the part before the lock (lines 188-199): the file is created when
\* absent, read and parsed into a local Vec; the Mutex is not held.
LoadRead(t) ==
    /\ tpc[t] = "load_read"
    /\ LET c == targ[t].coll
           r == from_str(c, LoadedFile(c).text)
       IN /\ disk' = [disk EXCEPT ![c] = LoadedFile(c)]
          /\ IF r.ok
             THEN /\ parsed' = [parsed EXCEPT ![t] = r.value]
                  /\ tpc' = [tpc EXCEPT ![t] = "load_lock"]
                  /\ UNCHANGED <<tres, terr>>
             ELSE /\ parsed' = parsed
                  /\ tpc' = [tpc EXCEPT ![t] = "idle"]
                  /\ tres' = [tres EXCEPT ![t] = "LoadFailed"]
                  /\ terr' = [terr EXCEPT ![t] = StorageError_Json("invalid")]
    /\ UNCHANGED <<collUnchanged, ext_ops, targ, mem, mutex, boot>>

\* load_*, lines 201-209: the Mutex is taken, the Vec replaced by the parsed
\* one, and the guard dropped on return.
LoadReplace(t) ==
    /\ tpc[t] = "load_lock"
    /\ LET c == targ[t].coll IN
       /\ mutex[c].owner = 0
       /\ IF mutex[c].poisoned
          THEN /\ mem' = mem
               /\ tres' = [tres EXCEPT ![t] = "PoisonError"]
               /\ terr' = [terr EXCEPT ![t] = StorageError_PoisonError]
          ELSE /\ mem' = [mem EXCEPT ![c] = parsed[t]]
               /\ tres' = [tres EXCEPT ![t] = "Ok"]
               /\ terr' = terr
    /\ parsed' = [parsed EXCEPT ![t] = <<>>]
    /\ tpc' = [tpc EXCEPT ![t] = "idle"]
    /\ UNCHANGED <<collUnchanged, ext_ops, targ, disk, mutex, boot>>

\* The callers of CollSpec and callers of load_*.
ReloadNext ==
    \/ CollNext
    \/ \E t \in Threads : LoadCall(t) \/ LoadRead(t) \/ LoadReplace(t)

BootFailed == 0 - 1
BootReady == Len(Collections)

\* JsonStorage::new: the next collection is loaded; an error of a load is
\* returned by new with `?`, and main returns it.
JsonStorage_new ==
    /\ boot \in 0..(BootReady - 1)
    /\ LET c == Collections[boot + 1] IN
       /\ load(c)
       /\ boot' = IF LoadOk(c) THEN boot + 1 ELSE BootFailed
       /\ terr' = [terr EXCEPT ![1] = LoadError(c)]
    /\ UNCHANGED <<collUnchanged, ext_ops, tpc, targ, tres, parsed>>

\* load_* called on the constructed store.
Reload(c) ==
    /\ boot = BootReady
    /\ load(c)
    /\ terr' = [terr EXCEPT ![1] = LoadError(c)]
    /\ tres' = [tres EXCEPT ![1] = IF LoadOk(c) THEN "Ok" ELSE "LoadFailed"]
    /\ targ' = [targ EXCEPT ![1] = Call(c, "load", 0, FirstSample(c))]
    /\ UNCHANGED <<collUnchanged, ext_ops, tpc, boot, parsed>>

\* save_* called on the constructed store, with no other caller.
Save(c) ==
    /\ boot = BootReady
    /\ mutex[c].owner = 0 /\ ~mutex[c].poisoned
    /\ disk' = [disk EXCEPT ![c] = File(to_string_pretty(c, mem[c]))]
    /\ terr' = [terr EXCEPT ![1] = NoError]
    /\ tres' = [tres EXCEPT ![1] = "Ok"]
    /\ targ' = [targ EXCEPT ![1] = Call(c, "save", 0, FirstSample(c))]
    /\ UNCHANGED <<collUnchanged, ext_ops, tpc, mem, mutex, boot, parsed>>

\* add_* called on the constructed store, with no other caller: the push, and
\* the file rewrite succeeding or failing.
Add(c, e, written) ==
    /\ boot = BootReady
    /\ ext_ops < MaxCalls
    /\ mutex[c].owner = 0 /\ ~mutex[c].poisoned
    /\ mem' = [mem EXCEPT ![c] = Push(@, e)]
    /\ disk' = IF written THEN [disk EXCEPT ![c] = File(to_string_pretty(c, Push(mem[c], e)))]
               ELSE disk
    /\ terr' = [terr EXCEPT ![1] = IF written THEN NoError
                                    ELSE Returned(Call(c, "add", e.id, e),
                                                  StorageError_Io("PermissionDenied"))]
    /\ tres' = [tres EXCEPT ![1] = IF written THEN "Ok" ELSE "WriteFailed"]
    /\ targ' = [targ EXCEPT ![1] = Call(c, "add", e.id, e)]
    /\ ext_ops' = ext_ops + 1
    /\ UNCHANGED <<collUnchanged, tpc, mutex, boot, parsed>>

\* The file of a collection is deleted or overwritten from outside the
\* process, as the reload routes expect.
ExternalEdit(c, f) ==
    /\ boot = BootReady
    /\ ext_ops < MaxCalls
    /\ disk[c] # f
    /\ disk' = [disk EXCEPT ![c] = f]
    /\ ext_ops' = ext_ops + 1
    /\ UNCHANGED <<collUnchanged, tpc, targ, tres, terr, mem, mutex, boot, parsed>>

BootNext ==
    \/ JsonStorage_new
    \/ \E c \in CollectionSet, f \in {NoFile, MalformedFile} : ExternalEdit(c, f)
    \/ \E c \in CollectionSet : Reload(c)
    \/ \E c \in CollectionSet : Save(c)
    \/ \E c \in CollectionSet, written \in BOOLEAN : Add(c, NewSample(c), written)

(***************************************************************************)
(* The specifications.                                                     *)
(***************************************************************************)
\* JsonStorage::new on files holding NumItems unavailable items, the two
\* presets and no schedule; the scheduler task spawned, no caller in the store.
Init ==
    /\ now = 0
    /\ menu_items = [i \in ItemIds |-> MenuItem(i, FALSE)]
    /\ menu_presets = InitialPresets
    /\ menu_schedules = <<>>
    /\ menu_items_file = ItemsToJson([i \in ItemIds |-> MenuItem(i, FALSE)])
    /\ menu_presets_file = PresetsToJson(InitialPresets)
    /\ menu_schedules_file = <<>>
    /\ next_id = 1
    /\ ext_ops = 0
    /\ pc = "start"
    /\ schedules = <<>>
    /\ tick_now = 0
    /\ idx = 1
    /\ schedule = NoSchedule
    /\ preset = NoPreset
    /\ items_read = <<>>
    /\ item_idx = 1
    /\ exec_err = NoMessage
    /\ items_touched = FALSE
    /\ lock = 0
    /\ tpc = [t \in Threads |-> "idle"]
    /\ targ = [t \in Threads |-> NoCall]
    /\ tres = [t \in Threads |-> "none"]
    /\ terr = [t \in Threads |-> NoError]
    /\ mem = [c \in CollectionSet |-> <<>>]
    /\ disk = [c \in CollectionSet |-> NoFile]
    /\ mutex = [c \in CollectionSet |-> [owner |-> 0, poisoned |-> FALSE]]
    /\ boot = Len(Collections)
    /\ elapsed = 0
    /\ deadline = 0
    /\ parsed = [t \in Threads |-> <<>>]

Next ==
    \/ AdvanceClock
    \/ \E req \in CreateRequests : handlers_create_menu_schedule(req)
    \/ \E id \in 1..MaxSchedules, req \in UpdateRequests : handlers_update_menu_schedule(id, req)
    \/ \E id \in 1..MaxSchedules : handlers_delete_menu_schedule(id)
    \/ \E id \in PresetIds : handlers_delete_menu_preset(id)
    \/ \E id \in ItemIds, b \in BOOLEAN : handlers_update_menu_item(id, b)
    \/ \E id \in ItemIds : handlers_delete_menu_item(id)
    \/ SkipFirstTick
    \/ SchedulerTick
    \/ SkipSchedule
    \/ MarkConflicted
    \/ BeginExecute
    \/ EndActive
    \/ ExecGetPreset
    \/ ExecGetItems
    \/ ExecUpdateItem
    \/ ExecReschedule
    \/ ExecFailed
    \/ FinishTick

Spec == Init /\ [][Next]_vars

\* The steps of the scheduler task.
EngineNext ==
    \/ SkipFirstTick
    \/ SchedulerTick
    \/ SkipSchedule
    \/ MarkConflicted
    \/ BeginExecute
    \/ EndActive
    \/ ExecGetPreset
    \/ ExecGetItems
    \/ ExecUpdateItem
    \/ ExecReschedule
    \/ ExecFailed
    \/ FinishTick

\* Spec with the tokio runtime running the scheduler task whenever it can take
\* a step and the interval firing every minute.
FairSpec == Spec /\ WF_vars(EngineNext)

\* The schedule files the engine is started on in LoadedSpec: S1 on preset 1
\* from instant 0, alone or followed by a Custom S2 on preset 2 from instant 1
\* (Pending, or stored as Active); each ends with its start or at FarEnd.
LoadedSchedules ==
    LET S1 == {MenuSchedule(1, 1, 0, e, r, "Pending") : e \in {0, FarEnd}, r \in ScheduleRecurrence}
        S2 == {MenuSchedule(2, 2, 1, e, RecCustom, st) : e \in {1, FarEnd}, st \in {"Pending", "Active"}}
    IN {<<a>> : a \in S1} \cup {<<a, b>> : a \in S1, b \in S2}

\* JsonStorage::new on files holding the items (item 2 available), the two
\* presets and one of LoadedSchedules.
LoadedInit ==
    /\ now = 0
    /\ menu_items = [i \in ItemIds |-> MenuItem(i, i = 2)]
    /\ menu_presets = InitialPresets
    /\ menu_schedules \in LoadedSchedules
    /\ menu_items_file = ItemsToJson(menu_items)
    /\ menu_presets_file = PresetsToJson(menu_presets)
    /\ menu_schedules_file = SchedulesToJson(menu_schedules)
    /\ next_id = MaxSchedules + 1
    /\ ext_ops = 0
    /\ pc = "start"
    /\ schedules = <<>>
    /\ tick_now = 0
    /\ idx = 1
    /\ schedule = NoSchedule
    /\ preset = NoPreset
    /\ items_read = <<>>
    /\ item_idx = 1
    /\ exec_err = NoMessage
    /\ items_touched = FALSE
    /\ lock = 0
    /\ tpc = [t \in Threads |-> "idle"]
    /\ targ = [t \in Threads |-> NoCall]
    /\ tres = [t \in Threads |-> "none"]
    /\ terr = [t \in Threads |-> NoError]
    /\ mem = [c \in CollectionSet |-> <<>>]
    /\ disk = [c \in CollectionSet |-> NoFile]
    /\ mutex = [c \in CollectionSet |-> [owner |-> 0, poisoned |-> FALSE]]
    /\ boot = Len(Collections)
    /\ elapsed = 0
    /\ deadline = 0
    /\ parsed = [t \in Threads |-> <<>>]

\* The engine on a loaded store, with the delete requests and the clock.
LoadedNext ==
    \/ AdvanceClock
    \/ \E id \in 1..MaxSchedules : handlers_delete_menu_schedule(id)
    \/ \E id \in PresetIds : handlers_delete_menu_preset(id)
    \/ \E id \in ItemIds : handlers_delete_menu_item(id)
    \/ EngineNext

LoadedSpec == LoadedInit /\ [][LoadedNext]_vars

FairLoadedSpec == LoadedSpec /\ WF_vars(EngineNext)

\* The schedule files of EndSpec: S1 on preset 1 from instant 0 with every
\* recurrence, ending at once or a day after its first week; alone, or followed
\* by a Custom S2 from instant 1 (Pending or stored as Active) whose preset is
\* stored or missing.
ShortEnd == Week + 1
EndSchedules ==
    LET S1 == {MenuSchedule(1, 1, 0, e, r, "Pending") : e \in {0, ShortEnd}, r \in ScheduleRecurrence}
        S2 == {MenuSchedule(2, p, 1, e, RecCustom, st) :
                  p \in {2, MissingPreset}, e \in {1, ShortEnd}, st \in {"Pending", "Active"}}
    IN {<<a>> : a \in S1} \cup {<<a, b>> : a \in S1, b \in S2}

\* JsonStorage::new on files holding the items, the two presets and one of
\* EndSchedules.
EndInit ==
    /\ now = 0
    /\ menu_items = [i \in ItemIds |-> MenuItem(i, i = 2)]
    /\ menu_presets = InitialPresets
    /\ menu_schedules \in EndSchedules
    /\ menu_items_file = ItemsToJson(menu_items)
    /\ menu_presets_file = PresetsToJson(menu_presets)
    /\ menu_schedules_file = SchedulesToJson(menu_schedules)
    /\ next_id = Len(menu_schedules) + 1
    /\ ext_ops = 0
    /\ pc = "start"
    /\ schedules = <<>>
    /\ tick_now = 0
    /\ idx = 1
    /\ schedule = NoSchedule
    /\ preset = NoPreset
    /\ items_read = <<>>
    /\ item_idx = 1
    /\ exec_err = NoMessage
    /\ items_touched = FALSE
    /\ lock = 0
    /\ tpc = [t \in Threads |-> "idle"]
    /\ targ = [t \in Threads |-> NoCall]
    /\ tres = [t \in Threads |-> "none"]
    /\ terr = [t \in Threads |-> NoError]
    /\ mem = [c \in CollectionSet |-> <<>>]
    /\ disk = [c \in CollectionSet |-> NoFile]
    /\ mutex = [c \in CollectionSet |-> [owner |-> 0, poisoned |-> FALSE]]
    /\ boot = Len(Collections)
    /\ elapsed = 0
    /\ deadline = 0
    /\ parsed = [t \in Threads |-> <<>>]

\* Utc::now() moves on, past every end_time of EndSchedules.
LongClock == ShortEnd + 1
ClockRuns ==
    /\ now < LongClock
    /\ now' = now + 1
    /\ UNCHANGED <<storeVars, next_id, ext_ops, taskVars, items_touched, threadVars,
                   collVars, timerVars>>

\* EndSpec: the engine alone with the store, no request served; the runtime
\* runs the scheduler task whenever it can take a step, and time does not
\* stand still.
EndNext ==
    \/ ClockRuns
    \/ EngineNext

EndSpec == EndInit /\ [][EndNext]_vars /\ WF_vars(EngineNext) /\ WF_vars(ClockRuns)

\* The schedule files of PassSpec: a Daily S1 on preset 1 from instant 0 to
\* FarEnd, alone or followed by a Custom S2 of LoadedSchedules.
PassSchedules ==
    {v \in LoadedSchedules : v[1].recurrence = RecDaily /\ v[1].end_time = FarEnd}

\* LoadedInit with every availability assignment of the items on disk.
PassInit ==
    /\ now = 0
    /\ menu_items \in {[i \in ItemIds |-> MenuItem(i, i \in a)] : a \in SUBSET ItemIds}
    /\ menu_presets = InitialPresets
    /\ menu_schedules \in PassSchedules
    /\ menu_items_file = ItemsToJson(menu_items)
    /\ menu_presets_file = PresetsToJson(menu_presets)
    /\ menu_schedules_file = SchedulesToJson(menu_schedules)
    /\ next_id = MaxSchedules + 1
    /\ ext_ops = 0
    /\ pc = "start"
    /\ schedules = <<>>
    /\ tick_now = 0
    /\ idx = 1
    /\ schedule = NoSchedule
    /\ preset = NoPreset
    /\ items_read = <<>>
    /\ item_idx = 1
    /\ exec_err = NoMessage
    /\ items_touched = FALSE
    /\ lock = 0
    /\ tpc = [t \in Threads |-> "idle"]
    /\ targ = [t \in Threads |-> NoCall]
    /\ tres = [t \in Threads |-> "none"]
    /\ terr = [t \in Threads |-> NoError]
    /\ mem = [c \in CollectionSet |-> <<>>]
    /\ disk = [c \in CollectionSet |-> NoFile]
    /\ mutex = [c \in CollectionSet |-> [owner |-> 0, poisoned |-> FALSE]]
    /\ boot = Len(Collections)
    /\ elapsed = 0
    /\ deadline = 0
    /\ parsed = [t \in Threads |-> <<>>]

PassSpec == PassInit /\ [][LoadedNext]_vars

\* The runtime's clock passes an interval boundary.
IntervalElapses ==
    /\ elapsed < MaxIntervals
    /\ elapsed' = elapsed + 1
    /\ UNCHANGED <<now, storeVars, next_id, ext_ops, taskVars, items_touched,
                   threadVars, collVars, deadline>>

\* Interval::tick: completes once the deadline is reached and moves the
\* deadline one period on (the first deadline is the creation instant).
IntervalTick ==
    /\ deadline <= elapsed
    /\ deadline' = deadline + 1
    /\ elapsed' = elapsed

\* run_scheduler without line 45: the loop is entered with the interval's
\* immediate first tick still to come (mutant).
TimedNoSkip ==
    /\ pc = "start"
    /\ pc' = "wait"
    /\ UNCHANGED <<now, storeVars, schedules, tick_now, idx, schedule, preset,
                   items_read, item_idx, exec_err, items_touched, next_id, ext_ops,
                   threadVars, collVars, timerVars>>

\* run_scheduler, lines 42-45, with the timer: interval.tick().await consumes
\* the immediate first tick.
TimedSkipFirstTick ==
    /\ pc = "start"
    /\ IntervalTick
    /\ pc' = "wait"
    /\ UNCHANGED <<now, storeVars, schedules, tick_now, idx, schedule, preset,
                   items_read, item_idx, exec_err, items_touched, next_id, ext_ops,
                   threadVars, collVars>>

\* run_scheduler, line 48, with the timer, and check_and_execute_schedules,
\* lines 63-66.
TimedSchedulerTick ==
    /\ pc = "wait"
    /\ IntervalTick
    /\ schedules' = menu_schedules
    /\ tick_now' = now
    /\ idx' = 1
    /\ pc' = "loop"
    /\ UNCHANGED <<now, storeVars, schedule, preset, items_read, item_idx, exec_err,
                   items_touched, next_id, ext_ops, threadVars, collVars>>

\* ItemSpec: the engine started on the files of PassSpec, with requests that
\* delete schedules, presets and items and requests that create items.
ItemNext ==
    \/ LoadedNext
    \/ \E b \in BOOLEAN : handlers_create_menu_item(b)

ItemSpec == PassInit /\ [][ItemNext]_vars

\* The schedule files of ConflictSpec: three Custom schedules with every
\* choice of intervals within the first instants, the third one Pending or
\* stored as Active.
ConflictIntervals == {iv \in (0..1) \X (0..1) : iv[1] <= iv[2]}
ConflictSchedules ==
    {<<MenuSchedule(1, 1, a[1], a[2], RecCustom, "Pending"),
       MenuSchedule(2, 2, b[1], b[2], RecCustom, "Pending"),
       MenuSchedule(3, 1, c[1], c[2], RecCustom, st)>> :
        a \in ConflictIntervals, b \in ConflictIntervals, c \in ConflictIntervals,
        st \in {"Pending", "Active"}}

\* JsonStorage::new on files holding the items, the two presets and one of
\* ConflictSchedules.
ConflictInit ==
    /\ now = 0
    /\ menu_items = [i \in ItemIds |-> MenuItem(i, i = 2)]
    /\ menu_presets = InitialPresets
    /\ menu_schedules \in ConflictSchedules
    /\ menu_items_file = ItemsToJson(menu_items)
    /\ menu_presets_file = PresetsToJson(menu_presets)
    /\ menu_schedules_file = SchedulesToJson(menu_schedules)
    /\ next_id = Len(menu_schedules) + 1
    /\ ext_ops = 0
    /\ pc = "start"
    /\ schedules = <<>>
    /\ tick_now = 0
    /\ idx = 1
    /\ schedule = NoSchedule
    /\ preset = NoPreset
    /\ items_read = <<>>
    /\ item_idx = 1
    /\ exec_err = NoMessage
    /\ items_touched = FALSE
    /\ lock = 0
    /\ tpc = [t \in Threads |-> "idle"]
    /\ targ = [t \in Threads |-> NoCall]
    /\ tres = [t \in Threads |-> "none"]
    /\ terr = [t \in Threads |-> NoError]
    /\ mem = [c \in CollectionSet |-> <<>>]
    /\ disk = [c \in CollectionSet |-> NoFile]
    /\ mutex = [c \in CollectionSet |-> [owner |-> 0, poisoned |-> FALSE]]
    /\ boot = Len(Collections)
    /\ elapsed = 0
    /\ deadline = 0
    /\ parsed = [t \in Threads |-> <<>>]

ConflictSpec == ConflictInit /\ [][LoadedNext]_vars

\* The engine with its interval timer, on a loaded store, with the delete
\* requests and the clock.
TimerNext ==
    \/ IntervalElapses
    \/ AdvanceClock
    \/ \E id \in 1..MaxSchedules : handlers_delete_menu_schedule(id)
    \/ \E id \in PresetIds : handlers_delete_menu_preset(id)
    \/ \E id \in ItemIds : handlers_delete_menu_item(id)
    \/ TimedSkipFirstTick
    \/ TimedSchedulerTick
    \/ SkipSchedule
    \/ MarkConflicted
    \/ BeginExecute
    \/ EndActive
    \/ ExecGetPreset
    \/ ExecGetItems
    \/ ExecUpdateItem
    \/ ExecReschedule
    \/ ExecFailed
    \/ FinishTick

\* LoadedInit on the schedule files of PassSchedules.
TimerInit == LoadedInit /\ menu_schedules \in PassSchedules

TimerSpec == TimerInit /\ [][TimerNext]_vars

StoreSpec == Init /\ [][StoreNext]_vars

StoreFaultSpec == Init /\ [][StoreFaultNext]_vars

\* The engine and the typed collections at rest, no caller in the store.
AtRest ==
    /\ now = 0
    /\ menu_items = <<>>
    /\ menu_presets = <<>>
    /\ menu_schedules = <<>>
    /\ menu_items_file = <<>>
    /\ menu_presets_file = <<>>
    /\ menu_schedules_file = <<>>
    /\ next_id = 1
    /\ ext_ops = 0
    /\ pc = "start"
    /\ schedules = <<>>
    /\ tick_now = 0
    /\ idx = 1
    /\ schedule = NoSchedule
    /\ preset = NoPreset
    /\ items_read = <<>>
    /\ item_idx = 1
    /\ exec_err = NoMessage
    /\ items_touched = FALSE
    /\ lock = 0
    /\ tpc = [t \in Threads |-> "idle"]
    /\ targ = [t \in Threads |-> NoCollCall]
    /\ tres = [t \in Threads |-> "none"]
    /\ terr = [t \in Threads |-> NoError]
    /\ elapsed = 0
    /\ deadline = 0
    /\ parsed = [t \in Threads |-> <<>>]

\* The store constructed on five files holding one entity each.
CollInit ==
    /\ AtRest
    /\ mem = [c \in CollectionSet |-> <<FirstSample(c)>>]
    /\ disk = [c \in CollectionSet |-> File(to_string_pretty(c, <<FirstSample(c)>>))]
    /\ mutex = [c \in CollectionSet |-> [owner |-> 0, poisoned |-> FALSE]]
    /\ boot = BootReady

CollSpec == CollInit /\ [][CollNext]_vars

ReloadSpec == CollInit /\ [][ReloadNext]_vars

\* The files JsonStorage::new can find for collection c: none, a malformed
\* one, or the serialization of a collection.
FileStates(c) == {NoFile, MalformedFile} \cup {File(to_string_pretty(c, v)) : v \in Vectors(c)}

\* The process starts: four files hold one entity each and the fifth is any
\* of FileStates.
BootInit ==
    /\ AtRest
    /\ mem = [c \in CollectionSet |-> <<>>]
    /\ \E c0 \in CollectionSet : \E f \in FileStates(c0) :
           disk = [c \in CollectionSet |->
                      IF c = c0 THEN f ELSE File(to_string_pretty(c, <<FirstSample(c)>>))]
    /\ mutex = [c \in CollectionSet |-> [owner |-> 0, poisoned |-> FALSE]]
    /\ boot = 0

BootSpec == BootInit /\ [][BootNext]_vars

(***************************************************************************)
(* The claims.                                                             *)
(***************************************************************************)
AfterTick == pc = "wait" /\ Len(schedules) > 0
ItemsFollow(ids) ==
    \A i \in 1..Len(menu_items) : menu_items[i].is_available = (menu_items[i].id \in ids)

\* C1: no two stored schedules whose closed intervals [start_time, end_time]
\* overlap are both Active at the same time.
C1_NoOverlappingActive ==
    \A i, j \in 1..Len(menu_schedules) :
        (i < j /\ Overlaps(menu_schedules[i], menu_schedules[j]))
            => ~(menu_schedules[i].status = "Active" /\ menu_schedules[j].status = "Active")

\* The conflict scenario: the only requests served created S1 = [0, 2] on preset
\* 1 and then S2 = [1, 3] on preset 2, and the tick that just ended read both as
\* Pending and due.
C2_Scenario ==
    /\ AfterTick
    /\ ext_ops = 2 /\ next_id = 3
    /\ Len(schedules) = 2 /\ Len(menu_schedules) = 2
    /\ \A i \in 1..2 : IsDuePending(schedules[i])
    /\ schedules[1].start_time = 0 /\ schedules[1].end_time = 2
    /\ schedules[2].start_time = 1 /\ schedules[2].end_time = 3
    /\ schedules[1].preset_id = 1 /\ schedules[2].preset_id = 2

PresetItems(pid) ==
    IF HasId(menu_presets, pid) THEN menu_presets[Position(menu_presets, pid)].menu_item_ids
    ELSE {}

\* C2: in the conflict scenario the tick executes S1, stores S2 as Conflicted
\* with a message naming S1, and leaves every item's availability equal to its
\* membership in S1's preset.
C2_FirstExecutes ==
    C2_Scenario =>
        /\ menu_schedules[1].status # "Conflicted"
        /\ menu_schedules[2].status = "Conflicted"
        /\ menu_schedules[2].error_message = ConflictMessage(schedules[1])
        /\ ItemsFollow(PresetItems(1))

\* The end-to-end scenario: the only request served created one Custom schedule
\* on preset 1 (items 1 and 2 of the unavailable items 1..NumItems), and the
\* tick that just ended read it as due.
C3_Scenario ==
    /\ AfterTick
    /\ ext_ops = 1 /\ next_id = 2
    /\ Len(schedules) = 1 /\ Len(menu_schedules) = 1
    /\ schedules[1].recurrence = RecCustom
    /\ schedules[1].preset_id = 1
    /\ is_schedule_due(schedules[1], tick_now)

\* C3 as stated: after the tick that finds S Pending and due before its
\* end_time, items 1 and 2 are available, the others are not, and S is stored
\* as Active; after a tick at or past end_time S is stored as Ended.
C3_ActiveAfterFirstTick ==
    /\ (C3_Scenario /\ schedules[1].status = "Pending" /\ schedules[1].end_time > tick_now)
           => (ItemsFollow(PresetItems(1)) /\ menu_schedules[1].status = "Active")
    /\ (C3_Scenario /\ schedules[1].status \in {"Pending", "Active", "Ended"}
            /\ schedules[1].end_time <= tick_now)
           => menu_schedules[1].status = "Ended"

\* C3 (amended): after the tick that finds S Pending and due, items 1 and 2
\* are available, the others are not, and S is already stored as Ended (Active
\* is stored only while the pass runs); after every later tick S is still Ended.
C3_EndedAfterFirstTick ==
    /\ (C3_Scenario /\ schedules[1].status = "Pending")
           => (ItemsFollow(PresetItems(1)) /\ menu_schedules[1].status = "Ended"
               /\ menu_schedules[1].error_message = NoMessage)
    /\ (C3_Scenario /\ schedules[1].status = "Ended")
           => menu_schedules[1] = schedules[1]

\* C3 witness: the first tick has just handled S = [0, 2], Pending, before its end_time.
C3_Witness ==
    /\ C3_Scenario
    /\ schedules[1].status = "Pending"
    /\ schedules[1].start_time = 0 /\ schedules[1].end_time = 2
    /\ tick_now = 0 /\ now < 2
    /\ menu_schedules[1].status = "Ended"

\* C4: every stored schedule has end_time strictly after start_time.
C4_EndAfterStart ==
    \A i \in 1..Len(menu_schedules) :
        menu_schedules[i].end_time > menu_schedules[i].start_time

\* A caller has updated memory and its file rewrite has not happened yet.
BetweenHalves(t) == tpc[t] \in {"lock_save", "in_save"}
InCritical(t) == tpc[t] \in {"in_mem", "in_save"}

Quiescent == \A t \in Threads : tpc[t] = "idle"

\* C6: when every call has returned, the item file's content is the in-memory
\* collection; and every file write records the whole in-memory collection of
\* that instant.
C6_FileConverges ==
    /\ [](Quiescent => ItemsFromJson(menu_items_file) = menu_items)
    /\ [][menu_items_file' # menu_items_file =>
             (menu_items' = menu_items /\ ItemsFromJson(menu_items_file') = menu_items)]_vars

\* C6 witness: two mutations whose halves interleaved have both returned Ok.
C6_Witness ==
    /\ Quiescent
    /\ \A t \in Threads : tres[t] = "Ok"
    /\ ext_ops >= 2
    /\ Len(menu_items) # NumItems

\* The item pass of execute_schedule has written its last item.
PassOver == pc = "exec_item_loop" /\ item_idx > Len(items_read)

\* C7: when the item pass is over and no handler changed the item collection
\* during it, every stored item is available exactly when the preset selects it.
C7_FullReplace ==
    (PassOver /\ ~items_touched) => ItemsFollow(preset.menu_item_ids)

\* C7 witness: a pass is over that made an available item outside the preset
\* unavailable and an unavailable item of the preset available.
C7_Witness ==
    /\ PassOver /\ ~items_touched
    /\ \E i \in 1..Len(items_read) :
          items_read[i].is_available /\ items_read[i].id \notin preset.menu_item_ids
    /\ \E i \in 1..Len(items_read) :
          ~items_read[i].is_available /\ items_read[i].id \in preset.menu_item_ids

\* C8: a creation request with end_time > start_time stores its schedule as Pending.
C8_CreatedPending ==
    [][(Len(menu_schedules') = Len(menu_schedules) + 1
        /\ menu_schedules'[Len(menu_schedules')].end_time
               > menu_schedules'[Len(menu_schedules')].start_time)
       => menu_schedules'[Len(menu_schedules')].status = "Pending"]_vars

\* C9: every stored schedule's status is one of the state machine's states.
C9_StatusInStateMachine ==
    \A i \in 1..Len(menu_schedules) : menu_schedules[i].status \in EngineStatus

\* Caller t leaves the memory half of an update or delete of an id the
\* collection does not hold.
MissingIdStep(t) ==
    /\ tpc[t] = "in_mem" /\ tpc'[t] # "in_mem"
    /\ targ[t].op \in {"update", "delete"}
    /\ ~HasId(menu_items, targ[t].id)

\* C10: update and delete of an id the collection does not hold return the
\* not-found error without a file rewrite, memory and file unchanged.
C10_MissingIdNotFound ==
    [][\A t \in Threads :
          MissingIdStep(t) =>
              /\ tres'[t] = "NotFound" /\ tpc'[t] = "idle"
              /\ menu_items' = menu_items
              /\ menu_items_file' = menu_items_file]_vars

\* C10 witness: an update and a delete of a missing id have both returned not-found.
C10_Witness ==
    \E a, b \in Threads :
        /\ tres[a] = "NotFound" /\ targ[a].op = "update"
        /\ tres[b] = "NotFound" /\ targ[b].op = "delete"

\* Caller t's file rewrite fails.
FailedWriteStep(t) == tpc[t] = "in_save" /\ tres'[t] = "WriteFailed"

C12_NotFoundKindDiffers ==
    \A a, b \in Threads :
        (tres[a] = "NotFound" /\ tres[b] = "WriteFailed") => terr[a].kind # terr[b].kind

\* The stored schedule with the given id, NoSchedule when it was deleted.
Stored(id) ==
    IF HasId(menu_schedules, id) THEN menu_schedules[Position(menu_schedules, id)]
    ELSE NoSchedule

\* A step that is not the start of a tick.
WithinTick == ~(pc = "wait" /\ pc' = "loop")

\* C13: a failure while processing one schedule does not stop the tick: the
\* loop moves to the next schedule of the list read at the start of the tick,
\* the list is walked one position at a time, and the tick ends only past the
\* last position.
C13_FailureContinuesTick ==
    /\ [][(pc = "failed" /\ pc' # "failed") =>
             (pc' = "loop" /\ idx' = idx + 1 /\ schedules' = schedules)]_vars
    /\ [][WithinTick => (schedules' = schedules /\ idx' \in {idx, idx + 1})]_vars
    /\ [][(pc # "wait" /\ pc' = "wait") => (pc = "start" \/ idx > Len(schedules))]_vars

\* C13 witness: the tick read S1 and S2 as Pending, S1 failed and S2, after it
\* in the list, was executed in the same tick.
C13_Witness ==
    /\ pc = "wait" /\ Len(schedules) = 2
    /\ schedules[1].status = "Pending" /\ schedules[2].status = "Pending"
    /\ Stored(schedules[1].id).status = "Failed"
    /\ Stored(schedules[2].id).status = "Ended"

StoredNext(id) ==
    IF HasId(menu_schedules', id) THEN menu_schedules'[Position(menu_schedules', id)]
    ELSE NoSchedule

\* The lookup of execute_schedule finds no preset with the schedule's preset_id.
PresetMissStep ==
    /\ pc = "exec_presets" /\ pc' # "exec_presets"
    /\ ~HasId(menu_presets, schedule.preset_id)

\* C15: when the preset of a due, non-conflicting Pending schedule is missing,
\* execute_schedule fails with a non-empty message, the schedule (if still
\* stored) is written as Failed with that message, and no step of the engine
\* from the start of the tick to that write modifies a menu item.
C15_MissingPresetFails ==
    /\ [][PresetMissStep => (pc' = "failed" /\ exec_err' # NoMessage)]_vars
    /\ [][(pc = "failed" /\ pc' # "failed") =>
             LET id == Current.id
                 failed == [Current EXCEPT !.status = "Failed", !.error_message = exec_err]
             IN /\ exec_err # NoMessage
                /\ HasId(menu_schedules, id) => StoredNext(id) = failed]_vars
    /\ [][(pc \in {"loop", "exec_presets", "failed"} /\ ext_ops' = ext_ops) =>
             (menu_items' = menu_items /\ menu_items_file' = menu_items_file)]_vars

\* C15 witness: the tick read S1 as Pending and left it Failed for its missing
\* preset, every item as loaded.
C15_Witness ==
    /\ pc = "wait" /\ Len(schedules) > 0
    /\ schedules[1].status = "Pending"
    /\ Stored(schedules[1].id).status = "Failed"
    /\ Stored(schedules[1].id).error_message = <<"Preset not found", schedules[1].preset_id>>
    /\ menu_items = [i \in ItemIds |-> MenuItem(i, i = 2)]

\* A step of the tick that handles a due Pending schedule with a conflict.
ConflictStep ==
    /\ AtSchedule /\ IsDuePending(Current)
    /\ has_schedule_conflict(Current, schedules) # 0
    /\ idx' = idx + 1

\* C16: handling a due Pending schedule with a conflict stores it (if still
\* stored) as Conflicted with a message naming another schedule of the list
\* whose interval overlaps its own, and modifies no menu item and no other
\* schedule.
C16_ConflictOnlyMarks ==
    [][ConflictStep =>
          LET id == Current.id
              other == schedules[has_schedule_conflict(Current, schedules)]
          IN /\ other.id # id /\ Overlaps(Current, other)
             /\ HasId(menu_schedules, id) =>
                    StoredNext(id) = [Current EXCEPT !.status = "Conflicted",
                                         !.error_message = <<"Conflicts with schedule", other.id>>]
             /\ menu_items' = menu_items /\ menu_items_file' = menu_items_file
             /\ Len(menu_schedules') = Len(menu_schedules)
             /\ \A i \in 1..Len(menu_schedules) :
                    menu_schedules[i].id # id => menu_schedules'[i] = menu_schedules[i]]_vars

\* C16 witness: the tick has just marked S1 Conflicted, naming S2, with S2 still
\* stored as it was read.
C16_Witness ==
    /\ pc = "loop" /\ idx = 2 /\ Len(schedules) = 2
    /\ schedules[1].status = "Pending"
    /\ Stored(schedules[1].id).status = "Conflicted"
    /\ Stored(schedules[1].id).error_message = <<"Conflicts with schedule", schedules[2].id>>
    /\ Stored(schedules[2].id) = schedules[2]

\* The pass of execute_schedule ends with its final schedule write succeeding.
PassEndStep ==
    /\ pc = "exec_item_loop" /\ item_idx > Len(items_read)
    /\ pc' = "loop"

\* C17: after the execution of a Daily schedule whose end_time is after now and
\* not before start_time + 1 day, the schedule is stored Pending with
\* start_time one day after the start_time it had, whatever the current time;
\* the same for a Weekly schedule with 7 days.
C17_NextFromStoredStart ==
    [][PassEndStep =>
          /\ (schedule.recurrence = RecDaily /\ schedule.end_time > now
                  /\ schedule.start_time + 1 <= schedule.end_time)
                 => (StoredNext(schedule.id).start_time = schedule.start_time + 1
                     /\ StoredNext(schedule.id).status = "Pending")
          /\ (schedule.recurrence = RecWeekly /\ schedule.end_time > now
                  /\ schedule.start_time + 7 <= schedule.end_time)
                 => (StoredNext(schedule.id).start_time = schedule.start_time + 7
                     /\ StoredNext(schedule.id).status = "Pending")]_vars

\* C17 witness: a Daily schedule starting at 0 with a far end_time was executed
\* by a tick that ran two days late or more, and is stored Pending from day 1.
C17_Witness ==
    /\ pc = "loop" /\ idx = 2 /\ tick_now >= 2
    /\ schedules[1].recurrence = RecDaily /\ schedules[1].status = "Pending"
    /\ schedules[1].start_time = 0 /\ schedules[1].end_time = FarEnd
    /\ Stored(schedules[1].id).start_time = 1
    /\ Stored(schedules[1].id).status = "Pending"

\* C18: after the execution of a Daily, Weekly or Monthly schedule whose
\* end_time is after now: when the next occurrence is not after end_time the
\* schedule is stored with start_time = next occurrence, Pending, no error
\* message and nothing else changed; otherwise it is stored Ended with a
\* message and its start_time unchanged.
C18_RearmOrEnd ==
    [][(PassEndStep /\ schedule.recurrence \in {RecDaily, RecWeekly, RecMonthly}
            /\ schedule.end_time > now) =>
          LET next == calculate_next_occurrence(schedule)
              after == StoredNext(schedule.id)
          IN IF next.some /\ next.t <= schedule.end_time
             THEN after = [schedule EXCEPT !.start_time = next.t, !.status = "Pending",
                                           !.error_message = NoMessage]
             ELSE /\ after.status = "Ended"
                  /\ after.error_message # NoMessage
                  /\ after.start_time = schedule.start_time]_vars

\* C18 witness: a Weekly schedule executed before its end_time, less than a
\* week after its start, is stored Ended with the explanatory message.
C18_Witness ==
    /\ pc = "loop" /\ idx = 2 /\ Len(schedules) = 1
    /\ schedules[1].recurrence = RecWeekly /\ schedules[1].status = "Pending"
    /\ schedules[1].end_time > now
    /\ Stored(schedules[1].id).status = "Ended"
    /\ Stored(schedules[1].id).error_message = <<"Next occurrence is after schedule end time">>
    /\ Stored(schedules[1].id).start_time = schedules[1].start_time

\* execute_schedule is running.
Executing == pc \in {"exec_presets", "exec_items", "exec_item_loop"}

\* A step that serves no request: a step of the engine or of the clock.
NoRequestStep == ext_ops' = ext_ops

\* C19: the engine executes a Custom schedule at most once: the pass of a
\* Custom schedule stores it as Ended; no step of the engine changes a stored
\* Custom schedule that is Ended; the schedule under execution is never one
\* stored as Ended; and the engine writes items only during the pass of a
\* schedule its tick read as Pending.
C19_CustomRunsOnce ==
    /\ [][(PassEndStep /\ schedule.recurrence = RecCustom) =>
             StoredNext(schedule.id).status = "Ended"]_vars
    /\ [][NoRequestStep =>
             \A i \in 1..Len(menu_schedules) :
                 (menu_schedules[i].recurrence = RecCustom
                      /\ menu_schedules[i].status = "Ended")
                     => (Len(menu_schedules') = Len(menu_schedules)
                         /\ menu_schedules'[i] = menu_schedules[i])]_vars
    /\ []((Executing /\ schedule.recurrence = RecCustom)
             => Stored(schedule.id).status # "Ended")
    /\ [][(NoRequestStep /\ menu_items' # menu_items) =>
             (pc = "exec_item_loop" /\ Current.status = "Pending"
              /\ Current.id = schedule.id)]_vars

\* C19 witness: a later tick has read the executed Custom schedule as Ended and
\* left it and the items of its pass alone.
C19_Witness ==
    /\ pc = "wait" /\ ext_ops = 1
    /\ Len(schedules) = 1 /\ Len(menu_schedules) = 1
    /\ schedules[1].recurrence = RecCustom /\ schedules[1].status = "Ended"
    /\ schedules[1].end_time > tick_now
    /\ menu_schedules[1] = schedules[1]
    /\ menu_items = [i \in ItemIds |-> MenuItem(i, i \in PresetItems(schedules[1].preset_id))]
    /\ \E i \in ItemIds : i \in PresetItems(schedules[1].preset_id)

\* C20: a schedule whose end_time is at or before the tick's current time does
\* not stay Active through its evaluation: read as Active, it is stored (if
\* still stored) as Ended with no error message, nothing else changed; executed
\* in that tick, its pass stores it as Ended with no error message.
C20_EndsAtEndTime ==
    /\ [][(AtSchedule /\ Current.status = "Active" /\ Current.end_time <= tick_now
               /\ idx' = idx + 1 /\ HasId(menu_schedules, Current.id)) =>
             StoredNext(Current.id) = [Current EXCEPT !.status = "Ended",
                                          !.error_message = NoMessage]]_vars
    /\ [][(PassEndStep /\ schedule.end_time <= tick_now) =>
             (StoredNext(schedule.id).status = "Ended"
              /\ StoredNext(schedule.id).error_message = NoMessage)]_vars

\* C20 witness: the tick read S2 as Active with end_time equal to the tick's
\* time and has stored it as Ended.
C20_Witness ==
    /\ pc = "loop" /\ idx = 3 /\ Len(schedules) = 2
    /\ schedules[2].status = "Active"
    /\ schedules[2].end_time = tick_now
    /\ Stored(schedules[2].id).status = "Ended"

\* The statuses the engine never leaves.
TerminalStatus == {"Ended", "Conflicted", "Failed"}

\* C21: the engine never changes a schedule whose status is Ended, Conflicted
\* or Failed: no step of the engine rewrites a schedule stored with such a
\* status, or a schedule the tick read with such a status, and the engine
\* writes items only during the pass of a schedule its tick read as Pending.
C21_TerminalAbsorbing ==
    /\ [][NoRequestStep =>
             \A i \in 1..Len(menu_schedules) :
                 menu_schedules[i].status \in TerminalStatus
                     => (Len(menu_schedules') = Len(menu_schedules)
                         /\ menu_schedules'[i] = menu_schedules[i])]_vars
    /\ [][(NoRequestStep /\ pc \notin {"start", "wait"}) =>
             \A k \in 1..Len(schedules) :
                 schedules[k].status \in TerminalStatus
                     => StoredNext(schedules[k].id) = Stored(schedules[k].id)]_vars
    /\ [][(NoRequestStep /\ (menu_items' # menu_items \/ menu_items_file' # menu_items_file)) =>
             (pc = "exec_item_loop" /\ Current.status \notin TerminalStatus
              /\ Current.id = schedule.id)]_vars

\* C21 witness: a tick has read S1 as Failed and S2 as Ended, both due, and
\* ended with both stored as read.
C21_Witness ==
    /\ pc = "wait" /\ Len(schedules) = 2
    /\ schedules[1].status = "Failed" /\ schedules[2].status = "Ended"
    /\ is_schedule_due(schedules[1], tick_now) /\ is_schedule_due(schedules[2], tick_now)
    /\ menu_schedules = schedules

\* The collections whose Mutex caller t owns.
Owned(t) == {c \in CollectionSet : mutex[c].owner = t}

\* C22: operations on different collections never block each other: a caller
\* owns at most one collection's lock, and none while it waits for one; a
\* caller waiting for a free lock can take it whatever the other collections'
\* locks are doing, the holder of a lock can always finish its critical
\* section, and so some caller in the store can always step.
C22_CollectionsIndependent ==
    /\ \A t \in Threads : Cardinality(Owned(t)) <= 1
    /\ \A t \in Threads : Waiting(t) => Owned(t) = {}
    /\ \A t \in Threads : Holding(t) <=> Owned(t) = {targ[t].coll}
    /\ \A t \in Threads :
           (Waiting(t) /\ mutex[targ[t].coll].owner = 0) => ENABLED Acquire(t)
    /\ \A t \in Threads :
           Holding(t) => ENABLED (ListStep(t) \/ CollMemStep(t) \/ CollWrite(t))
    /\ (\E t \in Threads : Waiting(t)) =>
           \E u \in Threads : Holding(u) \/ (Waiting(u) /\ ENABLED Acquire(u))

\* C22 witness: a caller has taken one collection's lock while another caller
\* holds a different collection's lock for its file rewrite.
C22_Witness ==
    \E a, b \in Threads :
        /\ tpc[a] = "in_save" /\ tpc[b] = "in_mem"
        /\ targ[a].coll # targ[b].coll
        /\ mutex[targ[a].coll].owner = a /\ mutex[targ[b].coll].owner = b

\* C23: no list call on a collection waits while another caller performs that
\* collection's file write.
C23_ListNeverWaitsOnWrite ==
    \A a, b \in Threads :
        ~(tpc[a] = "lock_list" /\ tpc[b] = "in_save" /\ targ[a].coll = targ[b].coll)

IsPoisonError(e) ==
    \/ e.kind = "PoisonError"
    \/ (e.kind = "Storage" /\ e.message.text = "Poison error")

\* C24: once a collection's lock is poisoned it stays poisoned, its in-memory
\* collection and its file never change again, and every list, insert,
\* update, delete or save that reaches the lock returns the lock-corruption
\* error; a caller waiting for the free, healthy lock of another collection
\* still takes it.
C24_PoisonedStaysFailed ==
    /\ [][\A c \in CollectionSet :
             mutex[c].poisoned =>
                 /\ mutex'[c].poisoned /\ mutex'[c].owner = 0
                 /\ mem'[c] = mem[c] /\ disk'[c] = disk[c]]_vars
    /\ [][\A t \in Threads :
             (Waiting(t) /\ mutex[targ[t].coll].poisoned /\ tpc'[t] # tpc[t]) =>
                 /\ tpc'[t] = "idle" /\ tres'[t] = "PoisonError"
                 /\ IsPoisonError(terr'[t])]_vars
    /\ [](\A t \in Threads :
             (Waiting(t) /\ ~mutex[targ[t].coll].poisoned /\ mutex[targ[t].coll].owner = 0)
                 => ENABLED (Acquire(t) /\ mutex'[targ[t].coll].owner = t))

\* C24 witness: an insert panicked under a collection's lock, and a later
\* update of that collection returned the lock-corruption error with the
\* collection and its file as they were.
C24_Witness ==
    \E a, b \in Threads :
        /\ tres[a] = "panicked"
        /\ tres[b] = "PoisonError" /\ targ[b].coll = targ[a].coll /\ targ[b].op = "update"
        /\ mem[targ[b].coll] = <<FirstSample(targ[b].coll)>>
        /\ disk[targ[b].coll] = File(to_string_pretty(targ[b].coll, <<FirstSample(targ[b].coll)>>))

\* A step that runs load_* of collection c: at startup, or on the constructed store.
LoadStep(c) ==
    \/ (boot \in 0..(BootReady - 1) /\ boot' # boot /\ c = Collections[boot + 1])
    \/ (boot = BootReady /\ ext_ops' = ext_ops /\ targ'[1].op = "load" /\ targ'[1].coll = c)

\* C25: load of a collection whose file is absent creates the file holding an
\* empty collection and leaves the in-memory collection empty; when the file
\* parses, the in-memory collection becomes exactly the file's content and
\* the file is kept; when the file is malformed, load returns a storage error
\* and no in-memory collection changes; a load failing at startup makes the
\* construction fail, for good.
C25_LoadOutcomes ==
    /\ [][\A c \in CollectionSet :
             (LoadStep(c) /\ ~disk[c].exists) =>
                 /\ disk'[c].exists /\ disk'[c].text = to_string_pretty(c, <<>>)
                 /\ mem'[c] = <<>>
                 /\ terr'[1] = NoError]_vars
    /\ [][\A c \in CollectionSet :
             (LoadStep(c) /\ disk[c].exists /\ from_str(c, disk[c].text).ok) =>
                 /\ to_string_pretty(c, mem'[c]) = disk[c].text
                 /\ Len(mem'[c]) = Len(disk[c].text)
                 /\ disk' = disk
                 /\ terr'[1] = NoError]_vars
    /\ [][\A c \in CollectionSet :
             (LoadStep(c) /\ disk[c].exists /\ ~from_str(c, disk[c].text).ok) =>
                 /\ terr'[1].kind = "Json"
                 /\ mem' = mem /\ disk' = disk
                 /\ boot # BootReady => boot' = BootFailed]_vars
    /\ [][boot = BootFailed => (boot' = BootFailed /\ mem' = mem)]_vars
    /\ [][\A c \in CollectionSet : (LoadStep(c) /\ boot # BootReady /\ terr'[1] = NoError)
             => boot' = boot + 1]_vars

\* C25 witness: the construction failed on a malformed schedule file after the
\* four collections before it were loaded.
C25_Witness ==
    /\ boot = BootFailed
    /\ terr[1].kind = "Json"
    /\ disk["menu_schedules"] = MalformedFile
    /\ mem["menu_schedules"] = <<>>
    /\ \A c \in CollectionSet \ {"menu_schedules"} : mem[c] = <<FirstSample(c)>>

C27_PassIdempotent ==
    /\ [](\A i \in 1..Len(menu_presets) :
             LET once == ExecutionPass(menu_presets[i], menu_items) IN
             /\ ExecutionPass(menu_presets[i], once) = once
             /\ \A k \in 1..Len(once) :
                    once[k].is_available = (once[k].id \in menu_presets[i].menu_item_ids))
    /\ []((PassOver /\ ~items_touched) => menu_items = ExecutionPass(preset, items_read))
    /\ [][(pc = "exec_item_loop" /\ NoRequestStep
               /\ menu_items = ExecutionPass(preset, menu_items)) =>
             (menu_items' = menu_items /\ menu_items_file' = menu_items_file)]_vars

\* C27 witness: the second pass of the Daily schedule S1 is over, on the
\* preset and the items of its first pass, and has left every item as the
\* first pass left it, the last item unavailable in the file.
C27_Witness ==
    /\ PassOver /\ ~items_touched
    /\ schedule.id = 1 /\ schedule.start_time = 1
    /\ Len(items_read) = NumItems
    /\ items_read = menu_items
    /\ menu_items = ExecutionPass(preset, items_read)
    /\ ItemFromJson(menu_items_file[NumItems]).is_available = FALSE

\* A step that starts an evaluation of the schedules.
EvaluationStarts == pc = "wait" /\ pc' = "loop"

\* C28: after the scheduler is started no evaluation happens before one full
\* interval has elapsed: the interval's immediate first tick is consumed
\* without reading or writing the store, and the n-th evaluation starts no
\* earlier than n intervals after the start, each evaluation taking one tick
\* of the interval.
C28_FirstTickSkipped ==
    /\ [](elapsed = 0 => (pc \in {"start", "wait"} /\ schedules = <<>>))
    /\ [][(pc = "start" /\ pc' # "start") =>
             (pc' = "wait" /\ deadline = 0 /\ deadline' = 1
              /\ storeVars' = storeVars /\ schedules' = schedules)]_vars
    /\ [][EvaluationStarts =>
             (deadline >= 1 /\ elapsed >= deadline /\ deadline' = deadline + 1)]_vars
    /\ [][deadline' # deadline => (pc = "start" \/ EvaluationStarts)]_vars

\* C28 witness: the first evaluation has run and the second one has just
\* started, two intervals after the start.
C28_Witness ==
    /\ pc = "loop" /\ idx = 1
    /\ elapsed = 2 /\ deadline = 3
    /\ Len(schedules) > 0

\* The closed intervals of s and of element i of v overlap, and element i is
\* not s.
ConflictsWith(s, v, i) ==
    /\ v[i].id # s.id
    /\ s.start_time <= v[i].end_time /\ s.end_time >= v[i].start_time

\* has_schedule_conflict(s, v) is as stated: Some exactly when an element with
\* another id overlaps s (touching endpoints included), and then the first
\* such element of v.
ConflictAsStated(s, v) ==
    LET r == has_schedule_conflict(s, v) IN
    /\ r \in 0..Len(v)
    /\ (r # 0) <=> (\E i \in 1..Len(v) : ConflictsWith(s, v, i))
    /\ r # 0 => (ConflictsWith(s, v, r) /\ \A j \in 1..(r - 1) : ~ConflictsWith(s, v, j))

\* C29: has_schedule_conflict(s, all) returns a schedule exactly when some
\* element of all with another id overlaps s's closed interval, the first such
\* element in collection order and never s itself, None otherwise: for every
\* schedule of the list the tick read against that list and against the stored
\* list, and so in the tick's decision for a due Pending schedule.
C29_ConflictFunction ==
    /\ [](\A k \in 1..Len(schedules) :
             /\ ConflictAsStated(schedules[k], schedules)
             /\ ConflictAsStated(schedules[k], menu_schedules))
    /\ [][(AtSchedule /\ IsDuePending(Current) /\ idx' = idx + 1
               /\ HasId(menu_schedules, Current.id)) =>
             \E i \in 1..Len(schedules) :
                 /\ ConflictsWith(Current, schedules, i)
                 /\ \A j \in 1..(i - 1) : ~ConflictsWith(Current, schedules, j)
                 /\ StoredNext(Current.id).error_message
                        = <<"Conflicts with schedule", schedules[i].id>>]_vars
    /\ [][(AtSchedule /\ IsDuePending(Current) /\ pc' # "loop") =>
             \A i \in 1..Len(schedules) : ~ConflictsWith(Current, schedules, i)]_vars

\* C29 witness: the tick read three schedules, the first one touching the
\* second at an endpoint and overlapping the third, and has stored the first
\* as Conflicted naming the second.
C29_Witness ==
    /\ pc = "loop" /\ idx = 2 /\ Len(schedules) = 3
    /\ schedules[1].end_time = schedules[2].start_time
    /\ schedules[1].start_time < schedules[1].end_time
    /\ ConflictsWith(schedules[1], schedules, 3)
    /\ has_schedule_conflict(schedules[1], schedules) = 2
    /\ Stored(schedules[1].id).error_message = <<"Conflicts with schedule", schedules[2].id>>

\* The positions of execute_schedule after its Active write.
ExecPath == {"exec_presets", "exec_items", "exec_item_loop"}

\* A step that changes the item collection or its file and is no request.
EngineItemWrite ==
    /\ ext_ops' = ext_ops
    /\ menu_items' # menu_items \/ menu_items_file' # menu_items_file

\* C30: during the execution of a schedule the Active status is written to
\* the schedule store before any menu item is modified: the engine writes items
\* only in the item loop, the execution gets past its first statement only by
\* a step that leaves the schedule stored and filed as Active with the items
\* untouched; and when the Active write fails, neither that step nor the
\* recording of the failure modifies an item.
C30_ActiveBeforeItems ==
    /\ [](pc \in ExecPath => schedule.status = "Active")
    /\ [][EngineItemWrite => pc = "exec_item_loop"]_vars
    /\ [][(pc' \in ExecPath /\ pc \notin ExecPath) =>
             /\ pc = "loop" /\ pc' = "exec_presets"
             /\ StoredNext(Current.id) = [Current EXCEPT !.status = "Active"]
             /\ menu_schedules_file' = SchedulesToJson(menu_schedules')
             /\ menu_items' = menu_items /\ menu_items_file' = menu_items_file]_vars
    /\ [][(pc = "loop" /\ pc' = "failed") =>
             /\ ~HasId(menu_schedules', Current.id)
             /\ menu_items' = menu_items /\ menu_items_file' = menu_items_file]_vars
    /\ [][(pc = "failed" /\ items_read = <<>> /\ ext_ops' = ext_ops) =>
             (menu_items' = menu_items /\ menu_items_file' = menu_items_file)]_vars

\* C30 witness: the Active write of a due schedule failed (the schedule was
\* deleted after the tick read it), the execution read no preset and no item,
\* and every item is as loaded.
C30_Witness ==
    /\ pc = "failed" /\ idx <= Len(schedules)
    /\ exec_err = <<"Menu schedule not found", schedules[idx].id>>
    /\ preset = NoPreset /\ items_read = <<>>
    /\ ~HasId(menu_schedules, schedules[idx].id)
    /\ menu_items = [i \in ItemIds |-> MenuItem(i, i = 2)]
    /\ menu_items_file = ItemsToJson(menu_items)

\* A step of the scheduler task on the schedule it is at.
EngineStepAtSchedule ==
    /\ AtSchedule
    /\ ext_ops' = ext_ops
    /\ idx' # idx \/ pc' # pc

\* C31: a tick changes nothing for a Pending schedule whose start_time is
\* later than the tick's current time (no collection and no file is written,
\* the tick moves on to the next schedule), and a Pending schedule is due
\* exactly when start_time <= now: one that is still stored with its start
\* reached is written as Conflicted or as Active in that step.
C31_NotDueUntouched ==
    /\ [][(EngineStepAtSchedule /\ Current.status = "Pending"
               /\ Current.start_time > tick_now) =>
             /\ UNCHANGED storeVars
             /\ pc' = "loop" /\ idx' = idx + 1]_vars
    /\ [][(EngineStepAtSchedule /\ Current.status = "Pending"
               /\ Current.start_time <= tick_now
               /\ HasId(menu_schedules, Current.id)) =>
             StoredNext(Current.id).status \in {"Conflicted", "Active"}]_vars

\* C31 witness: the tick has passed over a stored Pending schedule that starts
\* after the tick's time; the schedule and the items are as they were.
C31_Witness ==
    /\ pc = "loop" /\ idx = 2 /\ Len(schedules) >= 1
    /\ schedules[1].status = "Pending"
    /\ schedules[1].start_time > tick_now
    /\ Stored(schedules[1].id) = schedules[1]
    /\ menu_items = [i \in ItemIds |-> MenuItem(i, FALSE)]

\* Some other schedule of the list the tick read overlaps the schedule the
\* tick is at, whatever its status.
SnapshotOverlap == \E i \in 1..Len(schedules) : ConflictsWith(Current, schedules, i)

\* C32: the engine's conflict check compares a due schedule with every other
\* schedule of the list read at the start of the tick, whatever that schedule's
\* status or dueness and whatever has been stored since: a due Pending schedule
\* overlapping any other schedule of that list is stored as Conflicted (when it
\* is still stored) and not executed, and the schedule being executed overlaps
\* no other schedule of that list.
C32_ConflictIgnoresStatus ==
    /\ [][(EngineStepAtSchedule /\ IsDuePending(Current) /\ SnapshotOverlap) =>
             /\ pc' = "loop" /\ idx' = idx + 1
             /\ menu_items' = menu_items /\ menu_items_file' = menu_items_file
             /\ HasId(menu_schedules, Current.id) =>
                    StoredNext(Current.id).status = "Conflicted"]_vars
    /\ [](pc \in ExecPath => ~SnapshotOverlap)

\* C32 witness: the tick read a due Pending schedule and an overlapping
\* schedule that had Ended, and stored the Pending one as Conflicted.
C32_Witness ==
    /\ pc = "loop" /\ idx = 3 /\ Len(schedules) = 2
    /\ schedules[1].status = "Ended"
    /\ schedules[2].status = "Pending" /\ schedules[2].start_time <= tick_now
    /\ ConflictsWith(schedules[2], schedules, 1)
    /\ Stored(schedules[2].id).status = "Conflicted"

\* C33: after a tick, no schedule that was Pending when the tick read the list
\* is stored as Active (no caller sets a status in LoadedSpec, and a failed
\* write there is one on a deleted schedule); and the engine step that ends an
\* execution leaves a schedule that is still stored as Pending, Ended or
\* Failed, so that Active is stored by the engine only for the time of the
\* pass.
C33_NoActiveAfterTick ==
    /\ [](pc = "wait" =>
             \A k \in 1..Len(schedules) :
                 schedules[k].status = "Pending" =>
                     Stored(schedules[k].id).status # "Active")
    /\ [][(pc \in ExecPath \cup {"failed"} /\ pc' = "loop"
               /\ HasId(menu_schedules, Current.id)) =>
             StoredNext(Current.id).status \in {"Pending", "Ended", "Failed"}]_vars

\* C33 witness: the tick is over; it read S1 as Pending and executed it, and
\* S1 is stored re-armed, Pending with a later start_time.
C33_Witness ==
    /\ pc = "wait" /\ Len(schedules) >= 1
    /\ schedules[1].status = "Pending"
    /\ Stored(schedules[1].id).status = "Pending"
    /\ Stored(schedules[1].id).start_time > schedules[1].start_time
    /\ \A i \in 1..Len(menu_items) :
           menu_items[i].is_available = (menu_items[i].id \in PresetItems(schedules[1].preset_id))

\* A step of the scheduler task that changes the schedule collection.
EngineScheduleWrite ==
    /\ ext_ops' = ext_ops
    /\ menu_schedules' # menu_schedules

\* C34: an update of a schedule by a request that completes after the tick has
\* read the list and before the tick writes that schedule survives the tick's
\* write: the write leaves the stored preset_id, end_time and recurrence
\* (fields the engine never sets) as the request left them.
C34_ExternalEditSurvives ==
    [][EngineScheduleWrite =>
          /\ StoredNext(Current.id).preset_id = Stored(Current.id).preset_id
          /\ StoredNext(Current.id).end_time = Stored(Current.id).end_time
          /\ StoredNext(Current.id).recurrence = Stored(Current.id).recurrence]_vars

\* A step of the scheduler task inside a tick.
EngineStepInTick ==
    /\ pc \in {"loop", "failed"} \cup ExecPath
    /\ ext_ops' = ext_ops
    /\ idx' # idx \/ pc' # pc \/ item_idx' # item_idx

\* C35: a schedule deleted by a request while a tick is in progress is never
\* re-created by that tick: no step of the engine stores an id that was not
\* stored before it, a step on a schedule that is no longer stored leaves the
\* schedule collection and its file as they are, and the tick goes on to the
\* next schedule (directly, or through the Failed write when an execution had
\* been entered).
C35_DeletedNotRecreated ==
    /\ [][ext_ops' = ext_ops =>
             \A i \in 1..Len(menu_schedules') :
                 HasId(menu_schedules, menu_schedules'[i].id)]_vars
    /\ [][(EngineStepInTick /\ idx <= Len(schedules)
               /\ ~HasId(menu_schedules, Current.id)) =>
             /\ menu_schedules' = menu_schedules
             /\ menu_schedules_file' = menu_schedules_file
             /\ \/ pc' = "loop" /\ idx' = idx + 1
                \/ pc' = "failed" /\ pc # "failed"
                \/ pc \in ExecPath /\ pc' \in ExecPath]_vars

\* C35 witness: the tick read two schedules, the first one due, a request
\* deleted the first during the tick, and the tick has gone past it to the
\* second one: the first is neither stored nor in the file, the second one is
\* stored.
C35_Witness ==
    /\ pc = "loop" /\ idx = 2 /\ Len(schedules) = 2
    /\ schedules[1].status = "Pending" /\ schedules[1].start_time <= tick_now
    /\ ~HasId(menu_schedules, schedules[1].id)
    /\ HasId(menu_schedules, schedules[2].id)
    /\ ~HasId(SchedulesFromJson(menu_schedules_file), schedules[1].id)

\* The pass has stopped at an item of the list it read that is no longer
\* stored.
StoppedAtMissingItem ==
    /\ pc = "failed"
    /\ item_idx <= Len(items_read)
    /\ exec_err = <<"Menu item not found", items_read[item_idx].id>>

\* C36: when an item is deleted by a request after the pass has read the item
\* list and before the pass updates it, the pass stops at that item with an
\* error and without writing; where it has stopped, the stored items it had
\* already updated have the availability the preset gives them, the stored
\* items later in the list are as they were read, and the Failed write that
\* follows records the message and changes no item; no step of the engine
\* changes an item that is not in the list the pass read (one created during
\* the pass).
C36_DeletedItemStopsPass ==
    /\ [][(pc = "exec_item_loop" /\ item_idx <= Len(items_read) /\ EngineStepInTick
               /\ ~HasId(menu_items, items_read[item_idx].id)) =>
             /\ pc' = "failed"
             /\ exec_err' = <<"Menu item not found", items_read[item_idx].id>>
             /\ menu_items' = menu_items /\ menu_items_file' = menu_items_file]_vars
    /\ [](StoppedAtMissingItem =>
             \A i \in 1..Len(menu_items) :
                 LET k == Position(items_read, menu_items[i].id) IN
                 /\ k # item_idx
                 /\ (k # 0 /\ k < item_idx) =>
                        menu_items[i].is_available = PassAvailability(preset, items_read[k])
                 /\ k > item_idx => menu_items[i] = items_read[k])
    /\ [][(StoppedAtMissingItem /\ pc' # "failed") =>
             /\ menu_items' = menu_items /\ menu_items_file' = menu_items_file
             /\ HasId(menu_schedules, Current.id) =>
                    /\ StoredNext(Current.id).status = "Failed"
                    /\ StoredNext(Current.id).error_message = exec_err]_vars
    /\ [][ext_ops' = ext_ops =>
             \A i \in 1..Len(menu_items) :
                 Position(items_read, menu_items[i].id) = 0 =>
                     /\ HasId(menu_items', menu_items[i].id)
                     /\ menu_items'[Position(menu_items', menu_items[i].id)] = menu_items[i]]_vars

\* C36 witness: the pass of a schedule on preset 1 read three items, made the
\* first available, and has stopped at the second, deleted since: the third,
\* which the preset would make unavailable, is available as read, and an item
\* created during the pass is stored as created.
C36_Witness ==
    /\ StoppedAtMissingItem /\ item_idx = 2
    /\ schedule.preset_id = 1 /\ preset.menu_item_ids = {1, 2}
    /\ items_read = <<MenuItem(1, FALSE), MenuItem(2, FALSE), MenuItem(3, TRUE)>>
    /\ menu_items = <<MenuItem(1, TRUE), MenuItem(3, TRUE), MenuItem(NumItems + 1, FALSE)>>
    /\ menu_items_file = ItemsToJson(menu_items)

\* Every call made has returned, and returned Ok: each caller that called
\* made one call.
AllReturnedOk ==
    /\ \A t \in Threads : tpc[t] = "idle"
    /\ ext_ops = Cardinality({t \in Threads : tres[t] = "Ok"})

\* C37: for any interleaving of load_* with add, update or delete on the same
\* collection, once all calls have returned successfully the Vec in memory
\* equals what the file holds.
C37_ReloadKeepsMutation ==
    AllReturnedOk =>
        \A c \in CollectionSet :
            /\ disk[c].exists
            /\ from_str(c, disk[c].text).ok
            /\ from_str(c, disk[c].text).value = mem[c]

\* The schedule with this id is stored as Pending, no other stored schedule
\* overlaps it and its preset is stored.
PendingAlone(id) ==
    /\ HasId(menu_schedules, id)
    /\ Stored(id).status = "Pending"
    /\ HasId(menu_presets, Stored(id).preset_id)
    /\ \A i \in 1..Len(menu_schedules) : ~ConflictsWith(Stored(id), menu_schedules, i)

\* C38: with time advancing, ticks recurring, no store failure and no request
\* served (EndSpec), a Pending schedule that no stored schedule overlaps and
\* whose preset exists is eventually stored as Ended, whatever its recurrence;
\* a write that leaves it Pending has increased its start_time and kept its
\* end_time.
C38_EventuallyEnded ==
    /\ \A id \in 1..MaxSchedules : PendingAlone(id) ~> (Stored(id).status = "Ended")
    /\ [][\A id \in 1..MaxSchedules :
             (Stored(id).status = "Active" /\ StoredNext(id).status = "Pending") =>
                 /\ StoredNext(id).start_time > Stored(id).start_time
                 /\ StoredNext(id).end_time = Stored(id).end_time]_vars

\* C38 witness: a Daily schedule re-armed day after day up to its end_time is
\* stored as Ended.
C38_Witness ==
    /\ Stored(1).recurrence = RecDaily
    /\ Stored(1).status = "Ended"
    /\ Stored(1).start_time = ShortEnd /\ Stored(1).end_time = ShortEnd

\* C39: the engine never changes a stored schedule's id, preset_id,
\* recurrence or end_time (name, description and created_at are not modelled:
\* no statement of the engine or of the handlers modelled reads them), it
\* writes no schedule but the one the tick is at, and it never decreases a
\* stored start_time.
C39_EngineFrame ==
    [][EngineScheduleWrite =>
          /\ Len(menu_schedules') = Len(menu_schedules)
          /\ \A i \in 1..Len(menu_schedules) :
                 /\ menu_schedules'[i].id = menu_schedules[i].id
                 /\ menu_schedules'[i].preset_id = menu_schedules[i].preset_id
                 /\ menu_schedules'[i].recurrence = menu_schedules[i].recurrence
                 /\ menu_schedules'[i].end_time = menu_schedules[i].end_time
                 /\ menu_schedules'[i].start_time >= menu_schedules[i].start_time
                 /\ menu_schedules[i].id # Current.id =>
                        menu_schedules'[i] = menu_schedules[i]]_vars

\* The schedule the tick is at is Pending with its whole window passed.
WindowPassed ==
    /\ Current.status = "Pending"
    /\ Current.start_time <= tick_now
    /\ Current.end_time <= tick_now

\* C40: a Pending schedule evaluated when both its start_time and its end_time
\* have passed, and without conflict, is still executed: the tick enters
\* execute_schedule for it (Active is stored), the schedule is not stored as
\* Ended while the pass runs, and the step that ends the pass stores it as
\* Ended with no error message, with every item available exactly when the
\* preset selects it (no request having changed the items during the pass).
C40_PassedWindowExecuted ==
    /\ [][(EngineStepAtSchedule /\ WindowPassed /\ ~SnapshotOverlap
               /\ HasId(menu_schedules, Current.id)) =>
             /\ pc' = "exec_presets"
             /\ StoredNext(Current.id) = [Current EXCEPT !.status = "Active"]]_vars
    /\ [](pc \in ExecPath => Stored(schedule.id).status # "Ended")
    /\ [][(PassEndStep /\ WindowPassed) =>
             /\ StoredNext(Current.id) = [Current EXCEPT !.status = "Ended",
                                             !.error_message = NoMessage]
             /\ menu_items' = menu_items
             /\ ~items_touched => ItemsFollow(preset.menu_item_ids)]_vars

\* C40 witness: the tick read a Daily S1 as Pending with its start_time and
\* end_time at the tick's time, and has executed it: S1 is stored as Ended
\* with no error message and the items follow preset 1.
C40_Witness ==
    /\ pc = "loop" /\ idx = 2
    /\ schedules[1].status = "Pending" /\ schedules[1].recurrence = RecDaily
    /\ schedules[1].start_time <= tick_now /\ schedules[1].end_time <= tick_now
    /\ Stored(schedules[1].id) = [schedules[1] EXCEPT !.status = "Ended"]
    /\ menu_items = [i \in ItemIds |-> MenuItem(i, i \in {1, 2})]

====
